---- MODULE Spec2Model ----
(***************************************************************************)
(* Host-side driver of the Frankly bootloader (franc0r/frankly_fw_update). *)
(*                                                                         *)
(* The model follows src/src/francor/franklyboot/device/device.rs (Device: *)
(* init, reset, erase, flash), device/entry.rs (Entry::read_value),        *)
(* com/msg.rs (Msg, MsgData, the response validators), device/flash.rs     *)
(* (FlashDesc::add_section) and common/.../firmware/mod.rs (AppFirmware).  *)
(*                                                                         *)
(* One driver step is one request/response round trip on the transport,    *)
(* together with the local code that runs until the next round trip.       *)
(* A u32 that travels on the wire is the pair <<high 16 bits, low 16 bits>>*)
(* (the integers of TLC are 32-bit signed); addresses and page ids,        *)
(* which stay far below 2^31, are integers.                                *)
(*                                                                         *)
(* device.rs calls Entry::exec and Entry::write_value and FlashSection     *)
(* getters that the sources do not hold (entry.rs has them commented out); *)
(* these are taken as the specification describes them (write_value, exec, *)
(* get_page_range).  Entry::read_value is the one of entry.rs: it asks the *)
(* device for a Const entry that holds no value and for nothing else.      *)
(***************************************************************************)
EXTENDS Integers, Sequences, FiniteSets, TLC

\* ---------------------------------------------------------------- bounds
\* the flash page of the modelled device has 2^PageSizeBits bytes
PageSizeBits == 3
\* FlashInfoNumPages reported by the modelled device
NumFlashPages == 4
\* largest AppInfoPageIdx reported by the modelled device
MaxAppPageIdx == 2
\* number of public driver calls (init/reset/erase/flash) in one behaviour
MaxOps == 2

\* ------------------------------------------------------ program constants
FLASH_DFT_VALUE == 255
FlashStart == 134217728

\* Option<T>: <<>> is None, <<v>> is Some(v)
NoValue == <<>>
Some(v) == <<v>>

\* ------------------------------------------------------------ bit helpers
RECURSIVE XorN(_, _, _)
XorN(a, b, n) ==
    IF n = 0 THEN 0
    ELSE (((a % 2) + (b % 2)) % 2) + (2 * XorN(a \div 2, b \div 2, n - 1))

XOR4 == [a \in 0..15 |-> [b \in 0..15 |-> XorN(a, b, 4)]]

Xor8(a, b) == (XOR4[a \div 16][b \div 16] * 16) + XOR4[a % 16][b % 16]

Xor16(a, b) == (Xor8(a \div 256, b \div 256) * 256) + Xor8(a % 256, b % 256)

\* u32 <-> integer, for values below 2^31
U32(n) == <<(n \div 65536), (n % 65536)>>
ToInt(w) == (w[1] * 65536) + w[2]

\* ------------------------------------------------------------- MsgData
MsgData_new == <<0, 0, 0, 0>>

from_array(a) == <<a[1], a[2], a[3], a[4]>>

from_word(value) ==
    <<(value[2] % 256), (value[2] \div 256), (value[1] % 256), (value[1] \div 256)>>

to_word(data) == <<data[3] + (data[4] * 256), data[1] + (data[2] * 256)>>

\* ----------------------------------------------------------------- Msg
Msg_new(request, result, packet_id, data) ==
    [request |-> request, result |-> result, packet_id |-> packet_id, data |-> data]

new_std_request(request) ==
    [request |-> request, result |-> "None", packet_id |-> 0, data |-> MsgData_new]

\* variant: only Ok counts as success
ResultType_is_ok_strict(result) == result = "Ok"

ResultType_is_ok(result) == result \in {"None", "Ok"}

\* the outcome of Msg::is_response_ok: "Ok" or the kind of the Error it returns
\* variant: the packet id is looked at before the result code
is_response_ok_pid_first(self, response) ==
    LET request_valid == self.request = response.request
        result_ok == ResultType_is_ok(response.result)
        packet_id_valid == self.packet_id = response.packet_id
        msg_valid == request_valid /\ result_ok /\ packet_id_valid
    IN  IF msg_valid THEN "Ok"
        ELSE IF packet_id_valid = FALSE THEN "MsgCorruption"
        ELSE IF result_ok = FALSE THEN "ResultError"
        ELSE IF request_valid = FALSE THEN "MsgCorruption"
        ELSE "Error"

\* variant: the packet id of the response is not compared
is_response_ok_no_pid(self, response) ==
    LET request_valid == self.request = response.request
        result_ok == ResultType_is_ok(response.result)
        msg_valid == request_valid /\ result_ok
    IN  IF msg_valid THEN "Ok"
        ELSE IF result_ok = FALSE THEN "ResultError"
        ELSE IF request_valid = FALSE THEN "MsgCorruption"
        ELSE "Error"

is_response_ok(self, response) ==
    LET request_valid == self.request = response.request
        result_ok == ResultType_is_ok(response.result)
        packet_id_valid == self.packet_id = response.packet_id
        msg_valid == request_valid /\ result_ok /\ packet_id_valid
    IN  IF msg_valid THEN "Ok"
        ELSE IF result_ok = FALSE THEN "ResultError"
        ELSE IF packet_id_valid = FALSE THEN "MsgCorruption"
        ELSE IF request_valid = FALSE THEN "MsgCorruption"
        ELSE "Error"

\* variant: the payload of the response is not compared
is_response_data_ok_any(self, response) == "Ok"

is_response_data_ok(self, response) ==
    IF self.data = response.data THEN "Ok" ELSE "MsgCorruption"

\* ----------------------------------------------------------- wire codes
\* what a conversion that can panic gives back: the value, or the panic
Converted(v) == [status |-> "Ok", value |-> Some(v)]
Panicked == [status |-> "panic", value |-> NoValue]

\* RequestType::from_u16; the `_` arm panics
RequestType_from_u16(value) ==
    CASE value = 1 -> Converted("Ping")
      [] value = 17 -> Converted("ResetDevice")
      [] value = 18 -> Converted("StartApp")
      [] value = 257 -> Converted("DevInfoBootloaderVersion")
      [] value = 258 -> Converted("DevInfoBootloaderCRC")
      [] value = 259 -> Converted("DevInfoVID")
      [] value = 260 -> Converted("DevInfoPID")
      [] value = 261 -> Converted("DevInfoPRD")
      [] value = 262 -> Converted("DevInfoUID")
      [] value = 513 -> Converted("FlashInfoStartAddr")
      [] value = 514 -> Converted("FlashInfoPageSize")
      [] value = 515 -> Converted("FlashInfoNumPages")
      [] value = 769 -> Converted("AppInfoPageIdx")
      [] value = 770 -> Converted("AppInfoCRCCalc")
      [] value = 771 -> Converted("AppInfoCRCStrd")
      [] value = 1025 -> Converted("FlashReadWord")
      [] value = 4097 -> Converted("PageBufferClear")
      [] value = 4098 -> Converted("PageBufferReadWord")
      [] value = 4099 -> Converted("PageBufferWriteWord")
      [] value = 4100 -> Converted("PageBufferCalcCRC")
      [] value = 4101 -> Converted("PageBufferWriteToFlash")
      [] value = 4353 -> Converted("FlashWriteErasePage")
      [] value = 4354 -> Converted("FlashWriteAppCRC")
      [] OTHER -> Panicked

RequestType_to_u16(request) ==
    CASE request = "Ping" -> 1
      [] request = "ResetDevice" -> 17
      [] request = "StartApp" -> 18
      [] request = "DevInfoBootloaderVersion" -> 257
      [] request = "DevInfoBootloaderCRC" -> 258
      [] request = "DevInfoVID" -> 259
      [] request = "DevInfoPID" -> 260
      [] request = "DevInfoPRD" -> 261
      [] request = "DevInfoUID" -> 262
      [] request = "FlashInfoStartAddr" -> 513
      [] request = "FlashInfoPageSize" -> 514
      [] request = "FlashInfoNumPages" -> 515
      [] request = "AppInfoPageIdx" -> 769
      [] request = "AppInfoCRCCalc" -> 770
      [] request = "AppInfoCRCStrd" -> 771
      [] request = "FlashReadWord" -> 1025
      [] request = "PageBufferClear" -> 4097
      [] request = "PageBufferReadWord" -> 4098
      [] request = "PageBufferWriteWord" -> 4099
      [] request = "PageBufferCalcCRC" -> 4100
      [] request = "PageBufferWriteToFlash" -> 4101
      [] request = "FlashWriteErasePage" -> 4353
      [] request = "FlashWriteAppCRC" -> 4354

ResultType_to_u8(result) ==
    CASE result = "None" -> 0
      [] result = "Ok" -> 1
      [] result = "Error" -> 254
      [] result = "ErrUnknownReq" -> 253
      [] result = "ErrNotSupported" -> 252
      [] result = "ErrCRCInvld" -> 251
      [] result = "ErrPageFull" -> 250
      [] result = "ErrInvldArg" -> 249

\* ResultType::from_u8; the `_` arm panics
ResultType_from_u8(value) ==
    CASE value = 0 -> Converted("None")
      [] value = 1 -> Converted("Ok")
      [] value = 254 -> Converted("Error")
      [] value = 253 -> Converted("ErrUnknownReq")
      [] value = 252 -> Converted("ErrNotSupported")
      [] value = 251 -> Converted("ErrCRCInvld")
      [] value = 250 -> Converted("ErrPageFull")
      [] value = 249 -> Converted("ErrInvldArg")
      [] OTHER -> Panicked

\* variant: the request code is read high byte first
from_raw_data_array_be(data) ==
    LET request == RequestType_from_u16((data[1] * 256) + data[2])
        result == ResultType_from_u8(data[3])
    IN  IF request.status = "panic" \/ result.status = "panic" THEN Panicked
        ELSE Converted(Msg_new(request.value[1], result.value[1], data[4],
                               from_array(<<data[5], data[6], data[7], data[8]>>)))

\* Msg::from_raw_data_array (the frame is 1-indexed here: data[1] is byte 0)
from_raw_data_array(data) ==
    LET request == RequestType_from_u16(data[1] + (data[2] * 256))
        result == ResultType_from_u8(data[3])
    IN  IF request.status = "panic" \/ result.status = "panic" THEN Panicked
        ELSE Converted(Msg_new(request.value[1], result.value[1], data[4],
                               from_array(<<data[5], data[6], data[7], data[8]>>)))

\* variant: result code and packet id change places
to_raw_data_array_swapped(self) ==
    <<RequestType_to_u16(self.request) % 256,
      RequestType_to_u16(self.request) \div 256,
      self.packet_id,
      ResultType_to_u8(self.result),
      self.data[1], self.data[2], self.data[3], self.data[4]>>

\* Msg::to_raw_data_array
to_raw_data_array(self) ==
    <<RequestType_to_u16(self.request) % 256,
      (RequestType_to_u16(self.request) \div 256) % 256,
      ResultType_to_u8(self.result),
      self.packet_id,
      self.data[1], self.data[2], self.data[3], self.data[4]>>

\* --------------------------------------------------------------- CRC-32
\* CRC_32_ISO_HDLC: reflected polynomial 0xEDB88320, init and xorout 0xFFFFFFFF
CRC32_POLY == <<60856, 33568>>

crc_shift(c) ==
    LET s == <<(c[1] \div 2), (c[2] \div 2) + ((c[1] % 2) * 32768)>>
    IN  IF c[2] % 2 = 1
        THEN <<Xor16(s[1], CRC32_POLY[1]), Xor16(s[2], CRC32_POLY[2])>>
        ELSE s

RECURSIVE crc_bits(_, _)
crc_bits(c, n) == IF n = 0 THEN c ELSE crc_bits(crc_shift(c), n - 1)

\* the byte-wise table of the reflected algorithm
CRC_TABLE == [n \in 0..255 |-> crc_bits(<<0, n>>, 8)]

crc_byte(c, b) ==
    LET t == CRC_TABLE[Xor8(c[2] % 256, b)]
    IN  <<Xor16(c[1] \div 256, t[1]),
          Xor16(((c[1] % 256) * 256) + (c[2] \div 256), t[2])>>

RECURSIVE crc_update(_, _, _)
crc_update(c, bytes, i) ==
    IF i > Len(bytes) THEN c
    ELSE LET n == crc_byte(c, bytes[i])
         IN  IF n[1] >= 0 THEN crc_update(n, bytes, i + 1) ELSE n

CRC32_checksum(bytes) ==
    LET c == crc_update(<<65535, 65535>>, bytes, 1)
    IN  <<65535 - c[1], 65535 - c[2]>>

\* ------------------------------------------------------------ FlashPage
\* variant: a new page starts out zeroed
FlashPage_new_zeroed(id, address, bytes) ==
    [id |-> id, address |-> address, bytes |-> [k \in DOMAIN bytes |-> 0], crc |-> <<0, 0>>]

FlashPage_new(id, address, bytes) ==
    [id |-> id, address |-> address, bytes |-> bytes, crc |-> <<0, 0>>]

calculate_crc(page) == [page EXCEPT !.crc = CRC32_checksum(page.bytes)]

\* FlashPage::set_byte: `self.bytes[idx] = value` panics on an index that is not below
\* the length of the page (append_firmware passes offset % page_size, always below it)
set_byte(page, idx, value) ==
    IF idx < Len(page.bytes)
    THEN [page EXCEPT !.bytes[idx + 1] = value]
    ELSE Panicked

\* ---------------------------------------------------------- AppFirmware
\* the ascending list of the keys of a byte map (byte_address_lst.sort())
RECURSIVE SortedSeq(_)
SortedSeq(S) ==
    IF S = {} THEN <<>>
    ELSE LET m == CHOOSE x \in S : \A y \in S : x <= y
         IN  <<m>> \o SortedSeq(S \ {m})

AppFirmware_new(app_start_address, flash_page_size, flash_num_pages) ==
    [app_start_address |-> app_start_address,
     flash_page_size |-> flash_page_size,
     flash_num_pages |-> flash_num_pages,
     page_lst |-> <<>>,
     crc |-> <<0, 0>>]

\* index in page_lst of the page with this id, 0 when the image has none
page_index(fw, page_id) ==
    IF \E k \in 1..Len(fw.page_lst) : fw.page_lst[k].id = page_id
    THEN CHOOSE k \in 1..Len(fw.page_lst) :
            /\ fw.page_lst[k].id = page_id
            /\ \A m \in 1..(k - 1) : fw.page_lst[m].id # page_id
    ELSE 0

get_page(fw, page_id) ==
    IF page_index(fw, page_id) = 0 THEN NoValue
    ELSE Some(fw.page_lst[page_index(fw, page_id)])

RECURSIVE page_bytes_from(_, _)
page_bytes_from(fw, page_id) ==
    IF page_id >= fw.flash_num_pages THEN <<>>
    ELSE (IF get_page(fw, page_id) # NoValue
          THEN get_page(fw, page_id)[1].bytes
          ELSE [k \in 1..fw.flash_page_size |-> FLASH_DFT_VALUE])
         \o page_bytes_from(fw, page_id + 1)

\* variant: nothing is dropped
pop_none(bytes) == bytes

\* Vec::pop four times: the last four bytes are dropped (fewer if fewer exist)
pop4(bytes) == SubSeq(bytes, 1, IF Len(bytes) >= 4 THEN Len(bytes) - 4 ELSE 0)

calc_app_crc(fw) ==
    [fw EXCEPT !.crc = CRC32_checksum(pop4(page_bytes_from(fw, 0)))]

\* the byte loop of append_firmware from position i of the sorted addresses:
\* [ok |-> FALSE] at the first invalid address, else the image with the bytes placed
RECURSIVE place_bytes(_, _, _, _)
place_bytes(fw, data_raw, byte_address_lst, i) ==
    IF i > Len(byte_address_lst) THEN [ok |-> TRUE, fw |-> fw]
    ELSE
      LET byte_address == byte_address_lst[i]
          byte_address_valid == byte_address >= fw.app_start_address
          page_id == (byte_address - fw.app_start_address) \div fw.flash_page_size
          page_byte_idx == (byte_address - fw.app_start_address) % fw.flash_page_size
          page_id_valid == page_id < fw.flash_num_pages
          with_page ==
              IF page_index(fw, page_id) # 0 THEN fw
              ELSE [fw EXCEPT !.page_lst = Append(@,
                      FlashPage_new(page_id,
                          fw.app_start_address + (page_id * fw.flash_page_size),
                          [k \in 1..fw.flash_page_size |-> FLASH_DFT_VALUE]))]
          k == page_index(with_page, page_id)
          written == [with_page EXCEPT !.page_lst[k] =
                          set_byte(@, page_byte_idx, data_raw[byte_address])]
      IN  IF ~byte_address_valid THEN [ok |-> FALSE, fw |-> fw]
          ELSE IF ~page_id_valid THEN [ok |-> FALSE, fw |-> fw]
          ELSE place_bytes(written, data_raw, byte_address_lst, i + 1)

\* variant: the outcome of the byte loop is not looked at
append_firmware_always_ok(fw, data_raw) ==
    LET placed == place_bytes(fw, data_raw, SortedSeq(DOMAIN data_raw), 1)
    IN  [ok |-> TRUE, fw |-> calc_app_crc(placed.fw)]

append_firmware(fw, data_raw) ==
    LET placed == place_bytes(fw, data_raw, SortedSeq(DOMAIN data_raw), 1)
        crcd == [placed.fw EXCEPT !.page_lst =
                    [k \in 1..Len(placed.fw.page_lst) |-> calculate_crc(placed.fw.page_lst[k])]]
    IN  IF placed.ok
        THEN [ok |-> TRUE, fw |-> calc_app_crc(crcd)]
        ELSE [ok |-> FALSE, fw |-> placed.fw]

\* ------------------------------------------------------------- FlashDesc
FlashDesc_new(address, size, page_size) ==
    [address |-> address, size |-> size, page_size |-> page_size, section_lst |-> <<>>]

FlashSection_new(name, address, size, flash_page_id) ==
    [name |-> name, address |-> address, size |-> size, flash_page_id |-> flash_page_id]

\* [status |-> "Ok" or the FlashDescError kind, desc |-> the description afterwards]
add_section(desc, name, address, size) ==
    LET lst == desc.section_lst
        overlaps(section) ==
            \/ /\ section.address <= address
               /\ section.address + section.size > address
            \/ /\ section.address < address + size
               /\ section.address + section.size >= address + size
        page_id == (address - desc.address) \div desc.page_size
        status ==
            IF \E k \in 1..Len(lst) : lst[k].name = name THEN "FlashNameAlreadyUsed"
            ELSE IF address % desc.page_size # 0 THEN "FlashSectionAddressInvalid"
            ELSE IF size % desc.page_size # 0 THEN "FlashSectionSizeInvalid"
            ELSE IF address + size > desc.address + desc.size THEN "FlashSectionSizeTooBig"
            ELSE IF \E k \in 1..Len(lst) : overlaps(lst[k]) THEN "FlashAreaAlreadyUsed"
            ELSE "Ok"
    IN  [status |-> status,
         desc |-> IF status = "Ok"
                  THEN [desc EXCEPT !.section_lst =
                           Append(@, FlashSection_new(name, address, size, page_id))]
                  ELSE desc]

get_section(desc, name) ==
    IF \E k \in 1..Len(desc.section_lst) : desc.section_lst[k].name = name
    THEN LET k == CHOOSE k \in 1..Len(desc.section_lst) :
                     /\ desc.section_lst[k].name = name
                     /\ \A m \in 1..(k - 1) : desc.section_lst[m].name # name
         IN  Some(desc.section_lst[k])
    ELSE NoValue

\* the getters of a FlashSection that device.rs and AppFirmware::from_section use
section_page_size(desc) == desc.page_size

section_num_pages(desc, section) == section.size \div desc.page_size

\* the page ids of a section, ascending
get_page_range(desc, section) ==
    [k \in 1..section_num_pages(desc, section) |-> section.flash_page_id + (k - 1)]

from_section(desc, section) ==
    AppFirmware_new(section.address, section_page_size(desc),
                    section_num_pages(desc, section))

\* ---------------------------------------------------------------- errors
Err(kind, desc) == [kind |-> kind, desc |-> desc]

\* ------------------------------------------------- the entries of a Device
\* Device::new: (entry type, request type) in registration order
EntryTable ==
    << <<"Const", "DevInfoBootloaderVersion">>,
       <<"Const", "DevInfoBootloaderCRC">>,
       <<"Const", "DevInfoVID">>,
       <<"Const", "DevInfoPID">>,
       <<"Const", "DevInfoPRD">>,
       <<"Const", "DevInfoUID1">>,
       <<"Const", "DevInfoUID2">>,
       <<"Const", "DevInfoUID3">>,
       <<"Const", "DevInfoUID4">>,
       <<"Const", "FlashInfoStartAddr">>,
       <<"Const", "FlashInfoPageSize">>,
       <<"Const", "FlashInfoNumPages">>,
       <<"Const", "AppInfoPageIdx">>,
       <<"RO", "AppInfoCRCCalc">>,
       <<"Cmd", "PageBufferClear">>,
       <<"RW", "PageBufferWriteWord">>,
       <<"RO", "PageBufferCalcCRC">>,
       <<"Cmd", "PageBufferWriteToFlash">>,
       <<"Cmd", "FlashWriteErasePage">>,
       <<"Cmd", "FlashWriteAppCRC">>,
       <<"Cmd", "StartApp">>,
       <<"Cmd", "ResetDevice">> >>

EntryRequests == {EntryTable[k][2] : k \in 1..Len(EntryTable)}

get_entry_type(request_type) ==
    EntryTable[CHOOSE k \in 1..Len(EntryTable) : EntryTable[k][2] = request_type][1]

is_const(entry_type) == entry_type = "Const"
\* variant: every entry counts as readable
is_readable_any(entry_type) == TRUE

is_readable(entry_type) == entry_type \in {"Const", "RO", "RW"}
is_writeable(entry_type) == entry_type = "RW"
is_executable(entry_type) == entry_type = "Cmd"

\* ------------------------------------------------------------- transport
\* What one send/recv pair on the ComInterface can do: send fails; send succeeds
\* and recv fails (timeout or I/O error); recv panics (the simulator with nothing
\* queued unwraps None, the real transports decode a frame with an unknown request or
\* result code); or recv delivers a frame.
SendFails == [kind |-> "send_err", err |-> Err("ComError", "send"), msg |-> NoValue]

RecvFails ==
    {[kind |-> "recv_err", err |-> e, msg |-> NoValue] :
        e \in {Err("ComNoResponse", ""), Err("ComError", "recv")}}

\* recv does not return: the program aborts in it. The error kind "panic" marks the
\* round trip in which that happened; no caller gets it as a value.
RecvPanics == [kind |-> "recv_panic", err |-> Err("panic", "recv"), msg |-> NoValue]

\* the transport calls that end a round trip through recv without a frame
RecvEnds == {"recv_err", "recv_panic"}

\* result codes the modelled device answers with
ResultChoices == {"None", "Ok", "Error", "ErrInvldArg"}

\* a payload that differs from d
other_data(d) == <<(d[1] + 1) % 256, d[2], d[3], d[4]>>

\* the frames that can answer `request`, carrying one of the payloads `datas`:
\* any result code, the request code or a foreign one, the packet id or the previous one
Responses(request, datas) ==
    {[kind |-> "resp", err |-> Err("", ""),
      msg |-> Some(Msg_new(rq, rs, pid, d))] :
        rq \in {request.request, "Ping"},
        rs \in ResultChoices,
        pid \in {request.packet_id, (request.packet_id + 255) % 256},
        d \in datas}

Outcomes(request, datas) ==
    {SendFails} \cup RecvFails \cup {RecvPanics} \cup Responses(request, datas)

\* ---------------------------------------------------------------- Entry
\* variant: the response is stored without being validated
read_from_device_unchecked(request, t) ==
    IF t.kind = "send_err"
    THEN [err |-> Some(t.err), value |-> NoValue, sent |-> TRUE, recvd |-> FALSE]
    ELSE IF t.kind \in RecvEnds
    THEN [err |-> Some(t.err), value |-> NoValue, sent |-> TRUE, recvd |-> TRUE]
    ELSE [err |-> NoValue, value |-> Some(t.msg[1].data), sent |-> TRUE, recvd |-> TRUE]

\* variant: recv is called whether or not the send went through
read_from_device_recv_anyway(request, t) ==
    IF t.kind = "send_err"
    THEN [err |-> Some(t.err), value |-> NoValue, sent |-> TRUE, recvd |-> TRUE]
    ELSE IF t.kind \in RecvEnds
    THEN [err |-> Some(t.err), value |-> NoValue, sent |-> TRUE, recvd |-> TRUE]
    ELSE IF is_response_ok(request, t.msg[1]) # "Ok"
    THEN [err |-> Some(Err(is_response_ok(request, t.msg[1]), "response")),
          value |-> NoValue, sent |-> TRUE, recvd |-> TRUE]
    ELSE [err |-> NoValue, value |-> Some(t.msg[1].data), sent |-> TRUE, recvd |-> TRUE]

\* Entry::_read_from_device: send, recv, is_response_ok, store the payload.
\* [err |-> the error if any, value |-> the payload on success,
\*  sent, recvd |-> whether interface.send and interface.recv were called]
read_from_device(request, t) ==
    IF t.kind = "send_err"
    THEN [err |-> Some(t.err), value |-> NoValue, sent |-> TRUE, recvd |-> FALSE]
    ELSE IF t.kind \in RecvEnds
    THEN [err |-> Some(t.err), value |-> NoValue, sent |-> TRUE, recvd |-> TRUE]
    ELSE IF is_response_ok(request, t.msg[1]) # "Ok"
    THEN [err |-> Some(Err(is_response_ok(request, t.msg[1]), "response")),
          value |-> NoValue, sent |-> TRUE, recvd |-> TRUE]
    ELSE [err |-> NoValue, value |-> Some(t.msg[1].data), sent |-> TRUE, recvd |-> TRUE]

\* variant: a Const entry is read from the device whether or not it holds a value
read_value_reads_device_const(entry_type, value) == is_const(entry_type)

\* Entry::read_value reads from the device only in this case (entry.rs:135)
read_value_reads_device(entry_type, value) ==
    is_const(entry_type) /\ value = NoValue

\* the body of Entry::read_value, `reads` saying whether it asks the device.
\* status: "Ok", "Err" or "panic" (unwrap of an absent value, or a recv that panics)
read_value_with(reads, entry_type, request_type, value, t) ==
    IF is_readable(entry_type)
    THEN IF reads
         THEN LET r == read_from_device(new_std_request(request_type), t)
              IN  IF r.err # NoValue
                  THEN [status |-> IF r.err[1].kind = "panic" THEN "panic" ELSE "Err",
                        err |-> r.err, value |-> value,
                        ret |-> NoValue, sent |-> r.sent, recvd |-> r.recvd]
                  ELSE [status |-> "Ok", err |-> NoValue, value |-> r.value,
                        ret |-> r.value, sent |-> TRUE, recvd |-> TRUE]
         ELSE IF value = NoValue
              THEN [status |-> "panic", err |-> NoValue, value |-> value,
                    ret |-> NoValue, sent |-> FALSE, recvd |-> FALSE]
              ELSE [status |-> "Ok", err |-> NoValue, value |-> value,
                    ret |-> value, sent |-> FALSE, recvd |-> FALSE]
    ELSE [status |-> "Err", err |-> Some(Err("Error", "not readable")), value |-> value,
          ret |-> NoValue, sent |-> FALSE, recvd |-> FALSE]

\* Entry::read_value as src/.../device/entry.rs has it
read_value(entry_type, request_type, value, t) ==
    read_value_with(read_value_reads_device(entry_type, value),
                    entry_type, request_type, value, t)

\* ---- Entry::write_value and Entry::exec, which device.rs calls ----
\* the round trip of write_value and exec: is_response_ok and is_response_data_ok
write_to_device(request, t) ==
    IF t.kind = "send_err"
    THEN [err |-> Some(t.err), value |-> NoValue, sent |-> TRUE, recvd |-> FALSE]
    ELSE IF t.kind \in RecvEnds
    THEN [err |-> Some(t.err), value |-> NoValue, sent |-> TRUE, recvd |-> TRUE]
    ELSE IF is_response_ok(request, t.msg[1]) # "Ok"
    THEN [err |-> Some(Err(is_response_ok(request, t.msg[1]), "response")),
          value |-> NoValue, sent |-> TRUE, recvd |-> TRUE]
    ELSE IF is_response_data_ok(request, t.msg[1]) # "Ok"
    THEN [err |-> Some(Err(is_response_data_ok(request, t.msg[1]), "data")),
          value |-> NoValue, sent |-> TRUE, recvd |-> TRUE]
    ELSE [err |-> NoValue, value |-> Some(t.msg[1].data), sent |-> TRUE, recvd |-> TRUE]

write_value(entry_type, request_type, packet_id, data, t) ==
    IF is_writeable(entry_type)
    THEN write_to_device(Msg_new(request_type, "None", packet_id, data), t)
    ELSE [err |-> Some(Err("Error", "not writeable")), value |-> NoValue,
          sent |-> FALSE, recvd |-> FALSE]

exec(entry_type, request_type, argument, t) ==
    IF is_executable(entry_type)
    THEN write_to_device(Msg_new(request_type, "None", 0, from_word(argument)), t)
    ELSE [err |-> Some(Err("Error", "not executable")), value |-> NoValue,
          sent |-> FALSE, recvd |-> FALSE]

\* ------------------------------------------------------ the modelled device
\* the constants a device reports (answers to the Const requests)
PageSize == 2 ^ PageSizeBits

DeviceChoices ==
    {[start |-> FlashStart, page_size |-> PageSize,
      num_pages |-> NumFlashPages, app_page_idx |-> a] : a \in 1..MaxAppPageIdx}

DevValue(d, request_type) ==
    CASE request_type = "DevInfoBootloaderVersion" -> <<3, 513>>
      [] request_type = "DevInfoBootloaderCRC" -> <<57005, 48879>>
      [] request_type = "DevInfoVID" -> U32(1)
      [] request_type = "DevInfoPID" -> U32(2)
      [] request_type = "DevInfoPRD" -> U32(3)
      [] request_type = "DevInfoUID1" -> U32(4)
      [] request_type = "DevInfoUID2" -> U32(5)
      [] request_type = "DevInfoUID3" -> U32(6)
      [] request_type = "DevInfoUID4" -> U32(7)
      [] request_type = "FlashInfoStartAddr" -> U32(d.start)
      [] request_type = "FlashInfoPageSize" -> U32(d.page_size)
      [] request_type = "FlashInfoNumPages" -> U32(d.num_pages)
      [] request_type = "AppInfoPageIdx" -> U32(d.app_page_idx)

\* a CRC word that a device may report besides the one the host computed
StaleCRC == <<4660, 22136>>

\* the firmware files (sparse byte maps) handed to flash(): one byte in each of any
\* set of flash pages, page NumFlashPages lying past the end of the flash
FirmwareAddr(p) == FlashStart + (p * PageSize) + (p % PageSize)

FirmwareAddresses == {FirmwareAddr(p) : p \in 0..NumFlashPages}

FirmwareChoices ==
    {[a \in {FirmwareAddr(p) : p \in P} |-> 16 + ((a - FlashStart) % 200)] :
        P \in SUBSET (0..NumFlashPages)}

\* ------------------------------------------------------------------ state
VARIABLES
    dev,         \* the constants of the device on the other end of the transport
    entries,     \* Device.entries: request type -> the value the entry holds
    flash_desc,  \* Device.flash_desc
    pc,          \* where the driver is: "idle", inside an operation, "done", "panicked"
    op,          \* the public operation in progress or just finished
    app_fw,      \* the AppFirmware of the flash() call in progress
    idx,         \* the loop position: entry index, page id or index in page_lst
    word,        \* msg_idx of the word loop
    log,         \* the entry calls of the current operation, in order
    result,      \* what the finished operation returned
    ops,         \* public calls made so far
    entry,       \* a stand-alone Entry (entry.rs), for the entry-level behaviours
    fw_data,     \* the firmware data handed to the flash() call in progress
    progress,    \* what the operation in progress has reported of its pages, in order
    word_resp    \* the frame that recv returned in the last PageBufferWriteWord round trip

vars ==
    <<dev, entries, flash_desc, pc, op, app_fw, idx, word, log, result, ops, entry,
      fw_data, progress, word_resp>>

NoEntry == [entry_type |-> "Cmd", request_type |-> "Ping", value |-> NoValue]

Init ==
    /\ dev \in DeviceChoices
    /\ entries = [rt \in EntryRequests |-> NoValue]
    /\ flash_desc = FlashDesc_new(0, 0, 0)
    /\ pc = "idle"
    /\ op = "none"
    /\ app_fw = NoValue
    /\ idx = 0
    /\ word = 0
    /\ log = <<>>
    /\ result = NoValue
    /\ ops = 0
    /\ entry = NoEntry
    /\ fw_data = NoValue
    /\ progress = <<>>
    /\ word_resp = NoValue

\* what went wrong in a round trip, seen from the wire: the send or the recv failed,
\* the result code is not a success, or the frame does not echo the request
\* (`echo`: the payload has to come back too)
Fault(request, t, echo) ==
    IF t.kind = "send_err" THEN "send"
    ELSE IF t.kind = "recv_err" THEN "recv"
    ELSE IF t.kind = "recv_panic" THEN "panic"
    ELSE IF t.msg[1].result \notin {"None", "Ok"} THEN "result"
    ELSE IF t.msg[1].request # request.request THEN "corrupt"
    ELSE IF t.msg[1].packet_id # request.packet_id THEN "corrupt"
    ELSE IF echo /\ t.msg[1].data # request.data THEN "corrupt"
    ELSE "none"

\* one line of the log: the request of an entry call, what the call made of it (r)
\* and what the transport did (fault, and terr: the error the transport raised)
LogEntry(kind, request, r, t) ==
    [kind |-> kind, req |-> request, err |-> r.err, data |-> r.value,
     sent |-> r.sent, recvd |-> r.recvd,
     fault |-> IF r.sent THEN Fault(request, t, kind # "read") ELSE "none",
     terr |-> IF r.sent /\ t.kind # "resp" THEN Some(t.err) ELSE NoValue]

Ok == [status |-> "Ok", err |-> NoValue]
Failed(e) == [status |-> "Err", err |-> Some(e)]

get_entry_value(ents, request_type) == to_word(ents[request_type][1])

\* an operation ends with an error: `?` returns it to the caller; where the round trip
\* panicked nothing is returned and the program is gone
fails(e) ==
    IF e # NoValue /\ e[1].kind = "panic"
    THEN /\ pc' = "panicked"
         /\ UNCHANGED result
    ELSE /\ pc' = "done"
         /\ result' = Some([status |-> "Err", err |-> e])

\* an operation ends well
succeeds ==
    /\ pc' = "done"
    /\ result' = Some(Ok)

\* a read_value inside an operation did not give a value: `?` returns its error; where
\* it unwrapped a value the entry does not hold (entry.rs:139) the program is gone
read_fails(r) ==
    IF r.status = "panic"
    THEN /\ pc' = "panicked"
         /\ UNCHANGED result
    ELSE fails(r.err)

\* ------------------------------------------------------------------ init()
\* lines 96-124 of Device::init: the layout from the cached constants
\* variant: the bootloader is taken to be one page long
init_layout_one_page(ents) ==
    LET flash_start == ToInt(get_entry_value(ents, "FlashInfoStartAddr"))
        flash_page_size == ToInt(get_entry_value(ents, "FlashInfoPageSize"))
        flash_num_pages == ToInt(get_entry_value(ents, "FlashInfoNumPages"))
        flash_size == flash_page_size * flash_num_pages
        d0 == FlashDesc_new(flash_start, flash_size, flash_page_size)
        a1 == add_section(d0, "Bootloader", flash_start, flash_page_size)
        a2 == add_section(a1.desc, "Application", flash_start + flash_page_size,
                          flash_size - flash_page_size)
    IN  [res |-> Ok, desc |-> a2.desc]

init_layout(ents) ==
    LET flash_start == ToInt(get_entry_value(ents, "FlashInfoStartAddr"))
        flash_page_size == ToInt(get_entry_value(ents, "FlashInfoPageSize"))
        flash_num_pages == ToInt(get_entry_value(ents, "FlashInfoNumPages"))
        flash_size == flash_page_size * flash_num_pages
        flash_app_page_idx == ToInt(get_entry_value(ents, "AppInfoPageIdx"))
        bootloader_start == flash_start
        bootloader_size == flash_app_page_idx * flash_page_size
        app_start == flash_start + (flash_app_page_idx * flash_page_size)
        app_size == flash_size - bootloader_size
        d0 == FlashDesc_new(flash_start, flash_size, flash_page_size)
        a1 == add_section(d0, "Bootloader", bootloader_start, bootloader_size)
        a2 == add_section(a1.desc, "Application", app_start, app_size)
    IN  IF a1.status # "Ok"
        THEN [res |-> Failed(Err("Error", "Failed to add bootloader section")),
              desc |-> a1.desc]
        ELSE IF a2.status # "Ok"
        THEN [res |-> Failed(Err("Error", "Failed to add application section")),
              desc |-> a2.desc]
        ELSE [res |-> Ok, desc |-> a2.desc]

\* variant: the loop leaves out the entry at position k
next_const_after(ents, k) ==
    LET asks == {m \in (k + 1)..Len(EntryTable) :
                    /\ is_const(EntryTable[m][1])
                    /\ read_value_reads_device(EntryTable[m][1], ents[EntryTable[m][2]])}
    IN  IF asks = {} THEN 0 ELSE CHOOSE m \in asks : \A n \in asks : m <= n

\* _read_const_data: the next entry from position k on whose read_value asks the device
next_const(ents, k) ==
    LET asks == {m \in k..Len(EntryTable) :
                    /\ is_const(EntryTable[m][1])
                    /\ read_value_reads_device(EntryTable[m][1], ents[EntryTable[m][2]])}
    IN  IF asks = {} THEN 0 ELSE CHOOSE m \in asks : \A n \in asks : m <= n

\* init() from entry position k on, the entries holding ents
init_from(ents, k) ==
    IF next_const(ents, k) # 0
    THEN /\ pc' = "read_const"
         /\ idx' = next_const(ents, k)
         /\ UNCHANGED <<flash_desc, result>>
    ELSE /\ pc' = "done"
         /\ idx' = 0
         /\ flash_desc' = init_layout(ents).desc
         /\ result' = Some(init_layout(ents).res)

init_call ==
    /\ pc = "idle"
    /\ ops < MaxOps
    /\ op' = "init"
    /\ ops' = ops + 1
    /\ init_from(entries, 1)
    /\ UNCHANGED <<word_resp, fw_data, progress, dev, entries, app_fw, word, log, entry>>

read_const_data ==
    /\ pc = "read_const"
    /\ LET rt == EntryTable[idx][2]
           request == new_std_request(rt)
       IN  \E t \in Outcomes(request, {from_word(DevValue(dev, rt))}) :
             LET r == read_value(EntryTable[idx][1], rt, entries[rt], t)
             IN  /\ log' = Append(log, LogEntry("read", request, r, t))
                 /\ entries' = [entries EXCEPT ![rt] = r.value]
                 /\ IF r.status # "Ok"
                    THEN /\ read_fails(r)
                         /\ UNCHANGED <<idx, flash_desc>>
                    ELSE init_from(entries', idx + 1)
    /\ UNCHANGED <<word_resp, fw_data, progress, dev, op, app_fw, word, ops, entry>>

\* println! at the head of a loop pass over pages (device.rs:148-152, 296-303, 374-378):
\* the text up to the first number, the numbers printed, and `at`, the number of entry
\* calls the operation has made before the line
println(line, args) ==
    progress' = Append(progress, [line |-> line, args |-> args, at |-> Len(log)])

\* ------------------------------------------------------------------ reset()
reset_call ==
    /\ pc = "idle"
    /\ ops < MaxOps
    /\ op' = "reset"
    /\ ops' = ops + 1
    /\ pc' = "reset"
    /\ UNCHANGED <<word_resp, fw_data, progress, dev, entries, flash_desc, app_fw, idx, word, log, result, entry>>

reset ==
    /\ pc = "reset"
    /\ LET request == Msg_new("ResetDevice", "None", 0, from_word(U32(0)))
       IN  \E t \in Outcomes(request, {request.data, other_data(request.data)}) :
             LET r == exec(get_entry_type("ResetDevice"), "ResetDevice", U32(0), t)
             IN  /\ log' = Append(log, LogEntry("exec", request, r, t))
                 /\ IF r.err # NoValue THEN fails(r.err) ELSE succeeds
    /\ UNCHANGED <<word_resp, fw_data, progress, dev, entries, flash_desc, op, app_fw, idx, word, ops, entry>>

\* ------------------------------------------------------------------ erase()
erase_call ==
    /\ pc = "idle"
    /\ ops < MaxOps
    /\ op' = "erase"
    /\ ops' = ops + 1
    /\ IF get_section(flash_desc, "Application") = NoValue
       THEN /\ pc' = "panicked"
            /\ UNCHANGED <<idx, result>>
       ELSE IF Len(get_page_range(flash_desc, get_section(flash_desc, "Application")[1])) = 0
       THEN /\ succeeds
            /\ UNCHANGED idx
       ELSE /\ pc' = "erase"
            /\ idx' = 1
            /\ UNCHANGED result
    /\ UNCHANGED <<word_resp, fw_data, progress, dev, entries, flash_desc, app_fw, word, log, entry>>

\* variant: the loop counts from 0 instead of the first page of the section
erase_from_zero ==
    /\ pc = "erase"
    /\ LET page_range == get_page_range(flash_desc, get_section(flash_desc, "Application")[1])
           flash_page_id == idx - 1
           request == Msg_new("FlashWriteErasePage", "None", 0, from_word(U32(flash_page_id)))
       IN  \E t \in Outcomes(request, {request.data, other_data(request.data)}) :
             LET r == exec(get_entry_type("FlashWriteErasePage"), "FlashWriteErasePage",
                           U32(flash_page_id), t)
             IN  /\ log' = Append(log, LogEntry("exec", request, r, t))
                 /\ println("Erasing app pages",
                            <<flash_page_id + 1, flash_desc.size \div flash_desc.page_size>>)
                 /\ IF r.err # NoValue
                    THEN fails(r.err) /\ UNCHANGED idx
                    ELSE IF idx < Len(page_range)
                    THEN idx' = idx + 1 /\ UNCHANGED <<pc, result>>
                    ELSE succeeds /\ UNCHANGED idx
    /\ UNCHANGED <<word_resp, fw_data, dev, entries, flash_desc, op, app_fw, word, ops, entry>>

\* one pass of the loop of Device::erase: the line is printed, the page erased
erase ==
    /\ pc = "erase"
    /\ LET page_range == get_page_range(flash_desc, get_section(flash_desc, "Application")[1])
           flash_page_id == page_range[idx]
           request == Msg_new("FlashWriteErasePage", "None", 0, from_word(U32(flash_page_id)))
       IN  \E t \in Outcomes(request, {request.data, other_data(request.data)}) :
             LET r == exec(get_entry_type("FlashWriteErasePage"), "FlashWriteErasePage",
                           U32(flash_page_id), t)
             IN  /\ log' = Append(log, LogEntry("exec", request, r, t))
                 /\ println("Erasing app pages",
                            <<flash_page_id + 1, flash_desc.size \div flash_desc.page_size>>)
                 /\ IF r.err # NoValue
                    THEN fails(r.err) /\ UNCHANGED idx
                    ELSE IF idx < Len(page_range)
                    THEN idx' = idx + 1 /\ UNCHANGED <<pc, result>>
                    ELSE succeeds /\ UNCHANGED idx
    /\ UNCHANGED <<word_resp, fw_data, dev, entries, flash_desc, op, app_fw, word, ops, entry>>

\* ------------------------------------------------------------------ flash()
\* flash_page_id of the page being flashed (device.rs:292-293)
flash_page_id_of(desc, app_page) ==
    app_page.id + get_section(desc, "Application")[1].flash_page_id

\* the requests of one pass of the loop of _flash_app_pages, in statement order
page_steps == <<"page_clear", "page_word", "page_crc", "page_erase", "page_write">>

\* the step after `step`; the word loop is skipped when it has no pass
step_after(step, num_words) ==
    LET k == CHOOSE k \in 1..Len(page_steps) : page_steps[k] = step
        n == IF k < Len(page_steps) /\ page_steps[k + 1] = "page_word" /\ num_words = 0
             THEN k + 2 ELSE k + 1
    IN  IF n <= Len(page_steps) THEN page_steps[n] ELSE "next_page"

\* _flash_app_pages from position k of page_lst on
flash_pages_from(fw, k) ==
    IF k <= Len(fw.page_lst)
    THEN pc' = page_steps[1] /\ idx' = k
    ELSE pc' = "check_crc1" /\ idx' = 0

\* on in the loop pass of page_lst[idx] after `step`
page_goes_on(step) ==
    LET next == step_after(step, app_fw[1].flash_page_size \div 4)
    IN  IF next = "next_page"
        THEN flash_pages_from(app_fw[1], idx + 1)
        ELSE pc' = next /\ UNCHANGED idx

flash_call ==
    /\ pc = "idle"
    /\ ops < MaxOps
    /\ op' = "flash"
    /\ ops' = ops + 1
    /\ \E data_raw \in FirmwareChoices :
         /\ fw_data' = Some(data_raw)
         /\ IF get_section(flash_desc, "Application") = NoValue
            THEN /\ pc' = "panicked"
                 /\ UNCHANGED <<app_fw, idx, result>>
            ELSE LET app_section == get_section(flash_desc, "Application")[1]
                     a == append_firmware(from_section(flash_desc, app_section), data_raw)
                 IN  IF ~a.ok
                     THEN /\ fails(Some(Err("Error", "Firmware layout invalid")))
                          /\ UNCHANGED <<app_fw, idx>>
                     ELSE /\ app_fw' = Some(a.fw)
                          /\ flash_pages_from(a.fw, 1)
                          /\ UNCHANGED result
    /\ UNCHANGED <<word_resp, progress, dev, entries, flash_desc, word, log, entry>>

\* a step of flash() that is one exec(request_type, argument): on success `then`
exec_step(request_type, argument, then) ==
    LET request == Msg_new(request_type, "None", 0, from_word(argument))
    IN  \E t \in Outcomes(request, {request.data, other_data(request.data)}) :
          LET r == exec(get_entry_type(request_type), request_type, argument, t)
          IN  /\ log' = Append(log, LogEntry("exec", request, r, t))
              /\ IF r.err # NoValue
                 THEN fails(r.err) /\ UNCHANGED <<idx, word>>
                 ELSE then

\* a step of flash() that is one read_entry_value(request_type)?: where read_value
\* asks the device it answers one of `datas`; on Ok `then`, which finds the value in
\* the entry
read_step(request_type, datas, then) ==
    LET request == new_std_request(request_type)
    IN  \E t \in Outcomes(request, datas) :
          LET r == read_value(get_entry_type(request_type), request_type,
                              entries[request_type], t)
          IN  /\ log' = Append(log, LogEntry("read", request, r, t))
              /\ entries' = [entries EXCEPT ![request_type] = r.value]
              /\ IF r.status # "Ok"
                 THEN read_fails(r) /\ UNCHANGED <<idx, word>>
                 ELSE then

\* the head of a pass of the page loop: the line is printed, the page buffer cleared
page_clear ==
    /\ pc = "page_clear"
    /\ println("Flashing",
               <<idx, Len(app_fw[1].page_lst),
                 flash_page_id_of(flash_desc, app_fw[1].page_lst[idx]) + 1,
                 app_fw[1].flash_num_pages>>)
    /\ exec_step("PageBufferClear", U32(0),
          /\ page_goes_on("page_clear")
          /\ word' = 0
          /\ UNCHANGED result)
    /\ UNCHANGED <<word_resp, fw_data, dev, entries, flash_desc, op, app_fw, ops, entry>>

\* variant: the packet id is the word index itself
word_request_unwrapped(fw_page_byte_lst, msg_idx) ==
    Msg_new("PageBufferWriteWord", "None", msg_idx,
            from_array(<<fw_page_byte_lst[(msg_idx * 4) + 1],
                         fw_page_byte_lst[(msg_idx * 4) + 2],
                         fw_page_byte_lst[(msg_idx * 4) + 3],
                         fw_page_byte_lst[(msg_idx * 4) + 4]>>))

\* the request of pass msg_idx of the word loop (device.rs:314-325)
word_request(fw_page_byte_lst, msg_idx) ==
    LET byte_offset == msg_idx * 4
        msg_data == from_array(<<fw_page_byte_lst[byte_offset + 1],
                                 fw_page_byte_lst[byte_offset + 2],
                                 fw_page_byte_lst[byte_offset + 3],
                                 fw_page_byte_lst[byte_offset + 4]>>)
        packet_id == msg_idx % 256
    IN  Msg_new("PageBufferWriteWord", "None", packet_id, msg_data)

\* how many passes back a late acknowledgement is taken from
StaleBacks == {1, 2, 255, 256}

\* frames that acknowledge an earlier word write of the page: delayed or duplicated
\* answers of the device that arrive in answer to pass msg_idx
StaleAcks(fw_page_byte_lst, msg_idx) ==
    {[kind |-> "resp", err |-> Err("", ""),
      msg |-> Some([word_request(fw_page_byte_lst, msg_idx - b) EXCEPT !.result = "Ok"])] :
        b \in {n \in StaleBacks : n <= msg_idx}}

page_word ==
    /\ pc = "page_word"
    /\ LET fw_page_byte_lst == app_fw[1].page_lst[idx].bytes
           request == word_request(fw_page_byte_lst, word)
           msg_data == request.data
           packet_id == request.packet_id
       IN  \E t \in Outcomes(request, {msg_data, other_data(msg_data)})
                        \cup StaleAcks(fw_page_byte_lst, word) :
             LET r == write_value(get_entry_type("PageBufferWriteWord"),
                                  "PageBufferWriteWord", packet_id, msg_data, t)
             IN  /\ log' = Append(log, LogEntry("write", request, r, t))
                 /\ word_resp' = IF r.sent /\ t.kind = "resp" THEN t.msg ELSE NoValue
                 /\ IF r.err # NoValue
                    THEN fails(r.err) /\ UNCHANGED <<idx, word>>
                    ELSE IF word + 1 < app_fw[1].flash_page_size \div 4
                    THEN word' = word + 1 /\ UNCHANGED <<pc, idx, result>>
                    ELSE page_goes_on("page_word") /\ word' = 0 /\ UNCHANGED result
    /\ UNCHANGED <<fw_data, progress, dev, entries, flash_desc, op, app_fw, ops, entry>>

page_crc ==
    /\ pc = "page_crc"
    /\ LET page_calc_crc == app_fw[1].page_lst[idx].crc
           page_dev_crc == to_word(entries'["PageBufferCalcCRC"][1])
           then ==
               IF page_dev_crc # page_calc_crc
               THEN /\ fails(Some(Err("Error", "Page buffer CRC is invalid")))
                    /\ UNCHANGED <<idx, word>>
               ELSE /\ page_goes_on("page_crc")
                    /\ UNCHANGED <<word, result>>
       IN  read_step("PageBufferCalcCRC",
                     {from_word(page_calc_crc), from_word(StaleCRC)}, then)
    /\ UNCHANGED <<word_resp, fw_data, progress, dev, flash_desc, op, app_fw, ops, entry>>

page_erase ==
    /\ pc = "page_erase"
    /\ exec_step("FlashWriteErasePage",
                 U32(flash_page_id_of(flash_desc, app_fw[1].page_lst[idx])),
          /\ page_goes_on("page_erase")
          /\ UNCHANGED <<word, result>>)
    /\ UNCHANGED <<word_resp, fw_data, progress, dev, entries, flash_desc, op, app_fw, ops, entry>>

page_write ==
    /\ pc = "page_write"
    /\ exec_step("PageBufferWriteToFlash",
                 U32(flash_page_id_of(flash_desc, app_fw[1].page_lst[idx])),
          /\ page_goes_on("page_write")
          /\ UNCHANGED <<word, result>>)
    /\ UNCHANGED <<word_resp, fw_data, progress, dev, entries, flash_desc, op, app_fw, ops, entry>>

\* _erase_unused_pages: the next app_page_id from k on, below page_lst.len(), that the
\* image has no page for; -1 when the loop is over
next_unused(fw, k) ==
    LET unused == {app_page_id \in k..(Len(fw.page_lst) - 1) :
                      get_page(fw, app_page_id) = NoValue}
    IN  IF unused = {} THEN -1 ELSE CHOOSE m \in unused : \A n \in unused : m <= n

erase_unused_from(fw, k) ==
    IF next_unused(fw, k) >= 0
    THEN pc' = "erase_unused" /\ idx' = next_unused(fw, k)
    ELSE pc' = "check_crc2" /\ idx' = 0

\* the comparison of Device::is_app_crc_valid
is_app_crc_valid(app_crc, dev_crc) == app_crc = dev_crc

\* is_app_crc_valid, called first by _check_app_crc
check_crc1 ==
    /\ pc = "check_crc1"
    /\ LET app_crc == app_fw[1].crc
           dev_crc == to_word(entries'["AppInfoCRCCalc"][1])
           then ==
               IF is_app_crc_valid(app_crc, dev_crc)
               THEN /\ pc' = "flash_app_crc"
                    /\ UNCHANGED <<idx, word, result>>
               ELSE /\ erase_unused_from(app_fw[1], 0)
                    /\ UNCHANGED <<word, result>>
       IN  read_step("AppInfoCRCCalc", {from_word(app_crc), from_word(StaleCRC)}, then)
    /\ UNCHANGED <<word_resp, fw_data, progress, dev, flash_desc, op, app_fw, ops, entry>>

\* one pass of the loop of _erase_unused_pages that finds its page unused: the line is
\* printed, the page erased
erase_unused ==
    /\ pc = "erase_unused"
    /\ LET flash_num_pages == ToInt(get_entry_value(entries, "FlashInfoNumPages"))
           app_start_page_idx == ToInt(get_entry_value(entries, "AppInfoPageIdx"))
           flash_page_id == idx + app_start_page_idx
       IN  /\ println("Erasing unused", <<flash_page_id + 1, flash_num_pages>>)
           /\ exec_step("FlashWriteErasePage", U32(flash_page_id),
                 /\ erase_unused_from(app_fw[1], idx + 1)
                 /\ UNCHANGED <<word, result>>)
    /\ UNCHANGED <<word_resp, fw_data, dev, entries, flash_desc, op, app_fw, ops, entry>>

\* is_app_crc_valid, called again by _check_app_crc
check_crc2 ==
    /\ pc = "check_crc2"
    /\ LET app_crc == app_fw[1].crc
           dev_crc == to_word(entries'["AppInfoCRCCalc"][1])
           then ==
               IF is_app_crc_valid(app_crc, dev_crc)
               THEN /\ pc' = "flash_app_crc"
                    /\ UNCHANGED <<idx, word, result>>
               ELSE /\ fails(Some(Err("Error", "CRC check failed")))
                    /\ UNCHANGED <<idx, word>>
       IN  read_step("AppInfoCRCCalc", {from_word(app_crc), from_word(StaleCRC)}, then)
    /\ UNCHANGED <<word_resp, fw_data, progress, dev, flash_desc, op, app_fw, ops, entry>>

\* _flash_app_crc(app_fw.get_crc()), device.rs:199
flash_app_crc ==
    /\ pc = "flash_app_crc"
    /\ exec_step("FlashWriteAppCRC", app_fw[1].crc,
          /\ pc' = "start_app"
          /\ UNCHANGED <<idx, word, result>>)
    /\ UNCHANGED <<word_resp, fw_data, progress, dev, entries, flash_desc, op, app_fw, ops, entry>>

\* the last step of Device::flash
start_app ==
    /\ pc = "start_app"
    /\ exec_step("StartApp", U32(0),
          /\ succeeds
          /\ UNCHANGED <<idx, word>>)
    /\ UNCHANGED <<word_resp, fw_data, progress, dev, entries, flash_desc, op, app_fw, ops, entry>>

\* --------------------------------------- read_entry_value(), is_app_crc_valid()
\* the request types the caller hands to read_entry_value: a constant in the middle of
\* the table, the last constant, a readable entry and a command
ReadChoices == {"DevInfoVID", "AppInfoPageIdx", "AppInfoCRCCalc", "PageBufferClear"}

\* what the device answers to a read of request_type
DevAnswers(d, request_type) ==
    IF is_const(get_entry_type(request_type))
    THEN {from_word(DevValue(d, request_type))}
    ELSE {from_word(StaleCRC)}

\* the outcome of one read_value of the entry of request_type, made for the caller:
\* the value goes back as it is (`ret`), an error as it is
read_returns(r) ==
    IF r.status = "panic"
    THEN /\ pc' = "panicked"
         /\ UNCHANGED result
    ELSE /\ pc' = "done"
         /\ result' = Some([status |-> r.status, err |-> r.err, value |-> r.ret])

\* Device::read_entry_value(request_type), called on its own
read_entry_value_call ==
    /\ pc = "idle"
    /\ ops < MaxOps
    /\ op' = "read_entry_value"
    /\ ops' = ops + 1
    /\ \E request_type \in ReadChoices :
         LET request == new_std_request(request_type)
         IN  \E t \in Outcomes(request, DevAnswers(dev, request_type)) :
               LET r == read_value(get_entry_type(request_type), request_type,
                                   entries[request_type], t)
               IN  /\ log' = Append(log, LogEntry("read", request, r, t))
                   /\ entries' = [entries EXCEPT ![request_type] = r.value]
                   /\ read_returns(r)
    /\ UNCHANGED <<word_resp, fw_data, progress, dev, flash_desc, app_fw, idx, word, entry>>

\* the CRC of the AppFirmware the caller hands to is_app_crc_valid
AppCrcChoices == {StaleCRC, <<51966, 47806>>}

\* Device::is_app_crc_valid(&app), called on its own: one read of AppInfoCRCCalc,
\* Ok(app_crc == dev_crc) or the error of the read
is_app_crc_valid_call ==
    /\ pc = "idle"
    /\ ops < MaxOps
    /\ op' = "is_app_crc_valid"
    /\ ops' = ops + 1
    /\ \E app_crc \in AppCrcChoices :
         LET request == new_std_request("AppInfoCRCCalc")
         IN  \E t \in Outcomes(request, {from_word(app_crc), from_word(StaleCRC)}) :
               LET r == read_value(get_entry_type("AppInfoCRCCalc"), "AppInfoCRCCalc",
                                   entries["AppInfoCRCCalc"], t)
                   dev_crc == to_word(r.ret[1])
               IN  /\ log' = Append(log, LogEntry("read", request, r, t))
                   /\ entries' = [entries EXCEPT !["AppInfoCRCCalc"] = r.value]
                   /\ IF r.status = "Ok"
                      THEN /\ pc' = "done"
                           /\ result' = Some([status |-> "Ok", err |-> NoValue,
                                              value |-> Some(is_app_crc_valid(app_crc,
                                                                              dev_crc))])
                      ELSE read_returns(r)
    /\ UNCHANGED <<word_resp, fw_data, progress, dev, flash_desc, app_fw, idx, word, entry>>

\* the caller takes the result; the driver is ready for the next call
op_return ==
    /\ pc = "done"
    /\ pc' = "idle"
    /\ op' = "none"
    /\ app_fw' = NoValue
    /\ idx' = 0
    /\ word' = 0
    /\ log' = <<>>
    /\ result' = NoValue
    /\ fw_data' = NoValue
    /\ progress' = <<>>
    /\ word_resp' = NoValue
    /\ UNCHANGED <<dev, entries, flash_desc, ops, entry>>

\* The steps of flash() behind its first read_entry_value of an RO entry (page_erase,
\* page_write, erase_unused, check_crc2, flash_app_crc, start_app) are not steps of
\* Device: read_value does not return there (entry.rs:135-139).
Next ==
    \/ init_call \/ read_const_data
    \/ reset_call \/ reset
    \/ erase_call \/ erase
    \/ flash_call \/ page_clear \/ page_word \/ page_crc \/ check_crc1
    \/ read_entry_value_call \/ is_app_crc_valid_call
    \/ op_return

Spec == Init /\ [][Next]_vars

\* ------------------------------------------- a stand-alone Entry (entry.rs)
\* calls made on the stand-alone entry
MaxCalls == 3

\* the entries built with Entry::new(entry_type, name, request_type)
EntryChoices ==
    {[entry_type |-> et, request_type |-> rt, value |-> NoValue] :
        et \in {"Const", "RO", "RW", "Cmd"}, rt \in {"DevInfoVID", "AppInfoCRCCalc"}}

InitEntry ==
    /\ dev = CHOOSE d \in DeviceChoices : d.app_page_idx = 1
    /\ entries = [rt \in EntryRequests |-> NoValue]
    /\ flash_desc = FlashDesc_new(0, 0, 0)
    /\ pc = "entry"
    /\ op = "none"
    /\ app_fw = NoValue
    /\ idx = 0
    /\ word = 0
    /\ log = <<>>
    /\ result = NoValue
    /\ ops = 0
    /\ entry \in EntryChoices
    /\ fw_data = NoValue
    /\ progress = <<>>
    /\ word_resp = NoValue

\* one call of Entry::read_value on the entry; the device would answer with either
\* of two payloads
entry_read ==
    /\ pc = "entry"
    /\ ops < MaxCalls
    /\ ops' = ops + 1
    /\ LET request == new_std_request(entry.request_type)
       IN  \E t \in Outcomes(request, {from_word(U32(1)), from_word(StaleCRC)}) :
             LET r == read_value(entry.entry_type, entry.request_type, entry.value, t)
             IN  /\ log' = Append(log, LogEntry("read", request, r, t))
                 /\ entry' = [entry EXCEPT !.value = r.value]
                 /\ result' = Some([status |-> r.status, err |-> r.err, ret |-> r.ret])
                 /\ pc' = IF r.status = "panic" THEN "panicked" ELSE "entry"
    /\ UNCHANGED <<word_resp, fw_data, progress, dev, entries, flash_desc, op, app_fw, idx, word>>

\* how a call of write_value or exec ends: "Ok", "Err", or "panic" (no return)
call_status(r) ==
    IF r.err = NoValue THEN "Ok"
    ELSE IF r.err[1].kind = "panic" THEN "panic"
    ELSE "Err"

\* one call of Entry::write_value on the entry
entry_write ==
    /\ pc = "entry"
    /\ ops < MaxCalls
    /\ ops' = ops + 1
    /\ \E packet_id \in {5} :
         LET data == from_word(U32(7))
             request == Msg_new(entry.request_type, "None", packet_id, data)
         IN  \E t \in Outcomes(request, {data, other_data(data)}) :
               LET r == write_value(entry.entry_type, entry.request_type, packet_id, data, t)
               IN  /\ log' = Append(log, LogEntry("write", request, r, t))
                   /\ result' = Some([status |-> call_status(r),
                                       err |-> r.err, ret |-> r.value,
                                       resp |-> IF r.recvd THEN t.msg ELSE NoValue])
                   /\ pc' = IF call_status(r) = "panic" THEN "panicked" ELSE "entry"
    /\ UNCHANGED <<word_resp, fw_data, progress, dev, entries, flash_desc, op, app_fw, idx, word, entry>>

\* one call of Entry::exec on the entry
entry_exec ==
    /\ pc = "entry"
    /\ ops < MaxCalls
    /\ ops' = ops + 1
    /\ LET argument == U32(7)
           request == Msg_new(entry.request_type, "None", 0, from_word(argument))
       IN  \E t \in Outcomes(request, {request.data, other_data(request.data)}) :
             LET r == exec(entry.entry_type, entry.request_type, argument, t)
             IN  /\ log' = Append(log, LogEntry("exec", request, r, t))
                 /\ result' = Some([status |-> call_status(r),
                                     err |-> r.err, ret |-> r.value,
                                     resp |-> IF r.recvd THEN t.msg ELSE NoValue])
                 /\ pc' = IF call_status(r) = "panic" THEN "panicked" ELSE "entry"
    /\ UNCHANGED <<word_resp, fw_data, progress, dev, entries, flash_desc, op, app_fw, idx, word, entry>>

NextEntry == entry_read \/ entry_write \/ entry_exec

SpecEntry == InitEntry /\ [][NextEntry]_vars

\* ============================================== a frame through the codec
\* A response is encoded, may lose one byte on the wire, is decoded, and the decoded
\* message is held against the request with is_response_ok.
\*   entry  - the request and the response as the sender built them
\*   log    - the frame on the wire
\*   ops    - the number of bytes the wire changed
\*   result - what from_raw_data_array made of the frame
\*   op     - the outcome of is_response_ok
RequestTypes ==
    {"Ping", "ResetDevice", "StartApp", "DevInfoBootloaderVersion", "DevInfoBootloaderCRC",
     "DevInfoVID", "DevInfoPID", "DevInfoPRD", "DevInfoUID", "FlashInfoStartAddr",
     "FlashInfoPageSize", "FlashInfoNumPages", "AppInfoPageIdx", "AppInfoCRCCalc",
     "AppInfoCRCStrd", "FlashReadWord", "PageBufferClear", "PageBufferReadWord",
     "PageBufferWriteWord", "PageBufferCalcCRC", "PageBufferWriteToFlash",
     "FlashWriteErasePage", "FlashWriteAppCRC"}

ResultTypes ==
    {"None", "Ok", "Error", "ErrUnknownReq", "ErrNotSupported", "ErrCRCInvld",
     "ErrPageFull", "ErrInvldArg"}

\* payloads: the word 0x01020304 and the empty payload
DataChoices == {from_word(<<258, 772>>), MsgData_new}

MsgChoices ==
    {Msg_new(rq, rs, pid, d) :
        rq \in RequestTypes, rs \in ResultTypes, pid \in {0, 5}, d \in DataChoices}

RequestChoices ==
    {new_std_request("Ping"),
     Msg_new("PageBufferWriteWord", "None", 5, from_word(<<258, 772>>))}

\* the values a byte of the frame can turn into
GarbleBytes == {0, 1, 248, 249, 250, 255}

InitMsg ==
    /\ dev = CHOOSE d \in DeviceChoices : d.app_page_idx = 1
    /\ entries = [rt \in EntryRequests |-> NoValue]
    /\ flash_desc = FlashDesc_new(0, 0, 0)
    /\ pc = "msg"
    /\ op = "none"
    /\ app_fw = NoValue
    /\ idx = 0
    /\ word = 0
    /\ log = <<>>
    /\ result = NoValue
    /\ ops = 0
    /\ entry \in {[request |-> rq, response |-> rs] : rq \in RequestChoices, rs \in MsgChoices}
    /\ fw_data = NoValue
    /\ progress = <<>>
    /\ word_resp = NoValue

\* the sender encodes the response
msg_encode ==
    /\ pc = "msg"
    /\ log' = to_raw_data_array(entry.response)
    /\ pc' = "wire"
    /\ UNCHANGED <<word_resp, fw_data, progress, dev, entries, flash_desc, op, app_fw, idx, word, result, ops, entry>>

\* the wire changes one of the bytes 0..3 of the frame
msg_garble ==
    /\ pc = "wire"
    /\ ops = 0
    /\ \E i \in 1..4, b \in GarbleBytes :
         /\ log[i] # b
         /\ log' = [log EXCEPT ![i] = b]
    /\ ops' = 1
    /\ UNCHANGED <<word_resp, fw_data, progress, dev, entries, flash_desc, pc, op, app_fw, idx, word, result, entry>>

\* the receiver decodes the frame
msg_decode ==
    /\ pc = "wire"
    /\ result' = Some(from_raw_data_array(log))
    /\ pc' = IF result'[1].status = "panic" THEN "panicked" ELSE "decoded"
    /\ UNCHANGED <<word_resp, fw_data, progress, dev, entries, flash_desc, op, app_fw, idx, word, log, ops, entry>>

\* the receiver holds the decoded response against the request
msg_check ==
    /\ pc = "decoded"
    /\ op' = is_response_ok(entry.request, result[1].value[1])
    /\ pc' = "checked"
    /\ UNCHANGED <<word_resp, fw_data, progress, dev, entries, flash_desc, app_fw, idx, word, log, result, ops, entry>>

NextMsg == msg_encode \/ msg_garble \/ msg_decode \/ msg_check

SpecMsg == InitMsg /\ [][NextMsg]_vars

\* ======================================== a FlashDesc built section by section
\* FlashDesc::new for the flash of the modelled device, then add_section calls.
\*   flash_desc - the description
\*   result     - the last add_section call: its arguments and what it returned
\*   ops        - the number of add_section calls
MaxAdds == 3

SectionNames == {"Bootloader", "Application", "Data"}

\* page-aligned addresses inside the flash and at its end, and one in the middle of
\* the second page
SectionAddresses ==
    {FlashStart + (k * PageSize) : k \in 0..NumFlashPages}
        \cup {FlashStart + PageSize + (PageSize \div 2)}

\* one to three pages, and a page and a half
SectionSizes == {PageSize, 2 * PageSize, 3 * PageSize, PageSize + (PageSize \div 2)}

InitFlash ==
    /\ dev = CHOOSE d \in DeviceChoices : d.app_page_idx = 1
    /\ entries = [rt \in EntryRequests |-> NoValue]
    /\ flash_desc = FlashDesc_new(FlashStart, NumFlashPages * PageSize, PageSize)
    /\ pc = "flash_desc"
    /\ op = "none"
    /\ app_fw = NoValue
    /\ idx = 0
    /\ word = 0
    /\ log = <<>>
    /\ result = NoValue
    /\ ops = 0
    /\ entry = NoEntry
    /\ fw_data = NoValue
    /\ progress = <<>>
    /\ word_resp = NoValue

\* one call of FlashDesc::add_section
flash_add_section ==
    /\ pc = "flash_desc"
    /\ ops < MaxAdds
    /\ ops' = ops + 1
    /\ \E name \in SectionNames, address \in SectionAddresses, size \in SectionSizes :
         LET a == add_section(flash_desc, name, address, size)
         IN  /\ flash_desc' = a.desc
             /\ result' = Some([status |-> a.status, name |-> name,
                                 address |-> address, size |-> size])
    /\ UNCHANGED <<word_resp, fw_data, progress, dev, entries, pc, op, app_fw, idx, word, log, entry>>

NextFlash == flash_add_section

SpecFlash == InitFlash /\ [][NextFlash]_vars

\* ================================== an AppFirmware filled by append_firmware
\* AppFirmware::new for the application area of the modelled device, then one
\* append_firmware call for each of the byte maps at hand.
\*   entry  - the byte maps, in the order they are appended
\*   app_fw - the AppFirmware
\*   log    - the append_firmware calls made: the map and whether the call returned Ok
AppBase == FlashStart + PageSize

AppNumPages == NumFlashPages - 1

\* the byte below the application area, its first two bytes, a byte of page 2, the
\* last byte of the area and the first byte past it
FwAddresses ==
    {AppBase - 1, AppBase, AppBase + 1, AppBase + (2 * PageSize) + 3,
     AppBase + (AppNumPages * PageSize) - 1, AppBase + (AppNumPages * PageSize)}

FwValues == {0, 171}

\* the byte maps with at most two bytes
ByteMaps ==
    UNION {[A -> FwValues] : A \in {B \in SUBSET FwAddresses : Cardinality(B) <= 2}}

InitFirmware ==
    /\ dev = CHOOSE d \in DeviceChoices : d.app_page_idx = 1
    /\ entries = [rt \in EntryRequests |-> NoValue]
    /\ flash_desc = FlashDesc_new(0, 0, 0)
    /\ pc = "firmware"
    /\ op = "none"
    /\ app_fw = Some(AppFirmware_new(AppBase, PageSize, AppNumPages))
    /\ idx = 0
    /\ word = 0
    /\ log = <<>>
    /\ result = NoValue
    /\ ops = 0
    /\ entry \in ByteMaps \X ByteMaps
    /\ fw_data = NoValue
    /\ progress = <<>>
    /\ word_resp = NoValue

\* one call of AppFirmware::append_firmware with the next byte map
fw_append ==
    /\ pc = "firmware"
    /\ Len(log) < Len(entry)
    /\ LET data_raw == entry[Len(log) + 1]
           a == append_firmware(app_fw[1], data_raw)
       IN  /\ app_fw' = Some(a.fw)
           /\ log' = Append(log, [ok |-> a.ok, data |-> data_raw])
           /\ result' = Some(IF a.ok THEN Ok ELSE Failed(Err("Error", "Firmware layout invalid")))
    /\ UNCHANGED <<word_resp, fw_data, progress, dev, entries, flash_desc, pc, op, idx, word, ops, entry>>

NextFirmware == fw_append

SpecFirmware == InitFirmware /\ [][NextFirmware]_vars

\* ============================================== the transports (com/)
\* One ComInterface (serial, CAN or the simulator) and the calls made on it. The
\* bus, its nodes and the frames that arrive are the environment.
\*   entry  - the interface: its kind, whether its port or socket is open, the mode
\*            last set, the CAN receive filter
\*   result - the last call: its arguments, what the environment did, what it returned
CAN_BASE_ID == 1921
CAN_BROADCAST_ID == 1920

RECURSIVE AndN(_, _, _)
AndN(a, b, n) ==
    IF n = 0 THEN 0
    ELSE ((a % 2) * (b % 2)) + (2 * AndN(a \div 2, b \div 2, n - 1))

\* ComMode
Broadcast == [specific |-> FALSE, node |-> 0]
Specific(node_id) == [specific |-> TRUE, node |-> node_id]

TransportKinds == {"Serial", "CAN", "SIM"}

\* the nodes on the bus, and the node ids a caller may ask for
BusNodes == {1, 3}
NodeChoices == {1, 2, 3}

\* I::create(): no port or socket yet (`open`), no filter, the simulator in Broadcast mode
Interface_create(kind) ==
    [kind |-> kind, mode |-> Broadcast, filter |-> <<0, 0>>, open |-> FALSE]

is_network(kind) == kind # "Serial"

\* SerialInterface::open: the port is kept when it could be opened
serial_open(iface, open_ok) ==
    IF open_ok THEN [ret |-> Ok, iface |-> [iface EXCEPT !.open = TRUE]]
    ELSE [ret |-> Failed(Err("Error", "Failed to open serial port")), iface |-> iface]

\* CANInterface::open: a new socket, which has no filter of its own yet
can_open(iface, open_ok) ==
    IF open_ok
    THEN [ret |-> Ok,
          iface |-> [iface EXCEPT !.open = TRUE, !.mode = Broadcast, !.filter = <<0, 0>>]]
    ELSE [ret |-> Failed(Err("Error", "Error opening socket")), iface |-> iface]

\* SIMInterface::open
sim_open(iface, open_ok) == [ret |-> Ok, iface |-> [iface EXCEPT !.mode = Broadcast]]

\* open: [ret, iface]; open_ok is whether the system opened the port or socket
open(iface, open_ok) ==
    IF iface.kind = "Serial" THEN serial_open(iface, open_ok)
    ELSE IF iface.kind = "CAN" THEN can_open(iface, open_ok)
    ELSE sim_open(iface, open_ok)

\* CANInterface::set_mode: the filter id and mask
can_filter(mode) ==
    IF mode.specific
    THEN <<CAN_BASE_ID + (mode.node * 2) + 1, 2047>>
    ELSE <<0, 0>>

\* a CAN_RAW filter lets a frame through when id & mask = filter id & mask
filter_accepts(filter, id) == AndN(id, filter[2], 11) = AndN(filter[1], filter[2], 11)

\* the node id scan_network reads from an arbitration id (can.rs:105): the u32
\* subtraction of an id below CAN_BASE_ID panics in a build with overflow checks and
\* wraps in a build without them; `as u8` keeps the low eight bits
node_of(raw_id, overflow_checks) ==
    IF raw_id < CAN_BASE_ID /\ overflow_checks
    THEN Panicked
    ELSE Converted(((raw_id - CAN_BASE_ID) \div 2) % 256)

\* the nodes that take in a frame sent with this arbitration id: every node listens
\* on the broadcast id
listeners(id) == IF id = CAN_BROADCAST_ID THEN BusNodes ELSE {}

\* SerialInterface::set_mode
serial_set_mode(iface, mode, filter_ok) ==
    [ret |-> Failed(Err("NotSupported", "")), iface |-> iface]

\* CANInterface::set_mode; filter_ok is whether the socket took the filter. A refused
\* filter leaves the one in force
can_set_mode(iface, mode, filter_ok) ==
    IF ~iface.open
    THEN [ret |-> Failed(Err("Error", "CAN socket not open!")), iface |-> iface]
    ELSE IF filter_ok
    THEN [ret |-> Ok, iface |-> [iface EXCEPT !.mode = mode, !.filter = can_filter(mode)]]
    ELSE [ret |-> Failed(Err("Error", "Failed to set filter")), iface |-> iface]

\* SIMInterface::set_mode
sim_set_mode(iface, mode, filter_ok) == [ret |-> Ok, iface |-> [iface EXCEPT !.mode = mode]]

\* set_mode: [ret, iface]
set_mode(iface, mode, filter_ok) ==
    IF iface.kind = "Serial" THEN serial_set_mode(iface, mode, filter_ok)
    ELSE IF iface.kind = "CAN" THEN can_set_mode(iface, mode, filter_ok)
    ELSE sim_set_mode(iface, mode, filter_ok)

\* send: what it returns, the arbitration id the frame went out with (CAN) and the
\* nodes the frame reached; io_ok is whether the port or socket took the frame.
\* SerialInterface::send: to the one device on the line (0)
serial_send(iface, io_ok) ==
    IF ~iface.open
    THEN [ret |-> Failed(Err("Error", "Serial port not open!")), id |-> NoValue, to |-> {}]
    ELSE IF io_ok THEN [ret |-> Ok, id |-> NoValue, to |-> {0}]
    ELSE [ret |-> Failed(Err("Error", "Failed to write to serial port")),
          id |-> NoValue, to |-> {}]

\* CANInterface::send: a frame with the broadcast id, whatever the mode
can_send(iface, io_ok) ==
    IF ~iface.open
    THEN [ret |-> Failed(Err("Error", "CAN socket not open!")), id |-> NoValue, to |-> {}]
    ELSE IF io_ok
    THEN [ret |-> Ok, id |-> Some(CAN_BROADCAST_ID), to |-> listeners(CAN_BROADCAST_ID)]
    ELSE [ret |-> Failed(Err("Error", "write_frame")), id |-> NoValue, to |-> {}]

\* SIMInterface::send: send_node_msg to the node of the mode, nothing in Broadcast
sim_send(iface, io_ok) ==
    [ret |-> Ok, id |-> NoValue,
     to |-> IF iface.mode.specific THEN {iface.mode.node} \cap BusNodes ELSE {}]

send(iface, io_ok) ==
    IF iface.kind = "Serial" THEN serial_send(iface, io_ok)
    ELSE IF iface.kind = "CAN" THEN can_send(iface, io_ok)
    ELSE sim_send(iface, io_ok)

\* the responses nodes put on the bus: Ping answered with Ok, with Error, and an
\* answer to an earlier packet
ResponseMsgs ==
    {Msg_new("Ping", "Ok", 0, from_word(<<3, 513>>)),
     Msg_new("Ping", "Error", 0, MsgData_new),
     Msg_new("Ping", "Ok", 1, from_word(<<3, 513>>))}

\* the frames a node can answer with: on its response id, 0x781 + 2 * node, as a data
\* frame or (the Ok answer) as a remote frame
ArrivalFrames ==
    {f \in {[kind |-> "frame", node |-> k, id |-> CAN_BASE_ID + (2 * k), data |-> d,
             msg |-> m] : k \in BusNodes, d \in BOOLEAN, m \in ResponseMsgs} :
        f.data \/ is_response_ok(new_std_request("Ping"), f.msg) = "Ok"}

\* a frame on the CAN bus that no bootloader node sent: the Ping of another host, on
\* the broadcast id (node 0 stands for that host)
ForeignFrames ==
    {[kind |-> "frame", node |-> 0, id |-> CAN_BROADCAST_ID, data |-> TRUE,
      msg |-> new_std_request("Ping")]}

\* the frames that can arrive on a transport of this kind
FramesOn(kind) == IF kind = "CAN" THEN ArrivalFrames \cup ForeignFrames ELSE ArrivalFrames

NoFrame(kind) == [kind |-> kind, node |-> 0, id |-> 0, data |-> FALSE, msg |-> new_std_request("Ping")]

\* what the receive side can meet: a frame, nothing before the timeout, an I/O failure
\* of the port or socket (the simulator has none)
Arrivals(kind) ==
    FramesOn(kind) \cup {NoFrame("timeout")}
        \cup (IF kind = "SIM" THEN {} ELSE {NoFrame("io")})

\* SerialInterface::recv: read_exact, any error mapped to Error::Error
serial_recv(iface, a) ==
    IF ~iface.open
    THEN [ret |-> Failed(Err("Error", "Serial port not open!")), msg |-> NoValue]
    ELSE IF a.kind = "frame" THEN [ret |-> Ok, msg |-> Some(a.msg)]
    ELSE [ret |-> Failed(Err("Error", "Failed to read from serial port")), msg |-> NoValue]

\* CANInterface::recv: a data frame that passed the filter, else ComNoResponse
can_recv(iface, a) ==
    IF ~iface.open
    THEN [ret |-> Failed(Err("Error", "CAN socket not open!")), msg |-> NoValue]
    ELSE IF a.kind = "frame" /\ filter_accepts(iface.filter, a.id) /\ a.data
    THEN [ret |-> Ok, msg |-> Some(a.msg)]
    ELSE [ret |-> Failed(Err("ComNoResponse", "")), msg |-> NoValue]

\* SIMInterface::recv: the response queue of the node of the mode
sim_recv(iface, a) ==
    IF iface.mode.specific
    THEN (IF a.kind = "frame" /\ a.node = iface.mode.node
          THEN [ret |-> Ok, msg |-> Some(a.msg)]
          ELSE [ret |-> Failed(Err("ComNoResponse", "")), msg |-> NoValue])
    ELSE [ret |-> Failed(Err("Error", "Mode not supported!")), msg |-> NoValue]

recv(iface, a) ==
    IF iface.kind = "Serial" THEN serial_recv(iface, a)
    ELSE IF iface.kind = "CAN" THEN can_recv(iface, a)
    ELSE sim_recv(iface, a)

\* the receive loop of scan_network from frame i on: for each data frame that passes
\* is_response_ok for the Ping, the node id read from it (or the panic of reading it)
RECURSIVE scan_collect(_, _, _, _)
scan_collect(kind, frames, i, overflow_checks) ==
    IF i > Len(frames) THEN <<>>
    ELSE LET counts ==
                 /\ (kind = "CAN" => frames[i].data)
                 /\ is_response_ok(new_std_request("Ping"), frames[i].msg) = "Ok"
             node_id == IF kind = "CAN" THEN node_of(frames[i].id, overflow_checks)
                        ELSE Converted(frames[i].node)
         IN  (IF counts THEN <<node_id>> ELSE <<>>)
                 \o scan_collect(kind, frames, i + 1, overflow_checks)

\* what the receive loop leaves: the list of node ids, or the panic inside the loop
scan_found(found) ==
    IF \E k \in 1..Len(found) : found[k].status = "panic"
    THEN [ret |-> [status |-> "panic", err |-> NoValue], nodes |-> <<>>]
    ELSE [ret |-> Ok, nodes |-> [k \in 1..Len(found) |-> found[k].value[1]]]

\* SerialInterface::scan_network
serial_scan_network(iface, io_ok, filter_ok, frames, overflow_checks) ==
    [ret |-> Failed(Err("NotSupported", "")), nodes |-> <<>>, iface |-> iface,
     sent |-> NoValue]

\* CANInterface::scan_network: Broadcast mode, one Ping, then the receive loop
can_scan_network(iface, io_ok, filter_ok, frames, overflow_checks) ==
    LET m == can_set_mode(iface, Broadcast, filter_ok)
        s == can_send(m.iface, io_ok)
        f == scan_found(scan_collect("CAN", frames, 1, overflow_checks))
    IN  IF m.ret # Ok
        THEN [ret |-> m.ret, nodes |-> <<>>, iface |-> m.iface, sent |-> NoValue]
        ELSE IF s.ret # Ok
        THEN [ret |-> s.ret, nodes |-> <<>>, iface |-> m.iface, sent |-> NoValue]
        ELSE [ret |-> f.ret, nodes |-> f.nodes, iface |-> m.iface, sent |-> s.id]

\* SIMInterface::scan_network: send_broadcast_msg, then the responses until None
sim_scan_network(iface, io_ok, filter_ok, frames, overflow_checks) ==
    LET f == scan_found(scan_collect("SIM", frames, 1, overflow_checks))
    IN  [ret |-> f.ret, nodes |-> f.nodes, iface |-> iface, sent |-> NoValue]

\* scan_network: [ret, nodes, iface, sent: the id the Ping went out with]
scan_network(iface, io_ok, filter_ok, frames, overflow_checks) ==
    IF iface.kind = "Serial"
    THEN serial_scan_network(iface, io_ok, filter_ok, frames, overflow_checks)
    ELSE IF iface.kind = "CAN"
    THEN can_scan_network(iface, io_ok, filter_ok, frames, overflow_checks)
    ELSE sim_scan_network(iface, io_ok, filter_ok, frames, overflow_checks)

\* the frames that arrive before the first quiet timeout, at most one from each sender
ScanArrivals(kind) ==
    {<<>>} \cup {<<f>> : f \in FramesOn(kind)}
        \cup {fg \in FramesOn(kind) \X FramesOn(kind) : fg[1].node # fg[2].node}

\* reset_device, erase_device, flash_device of the front-end: without a node id a
\* network transport is refused before anything is created (main.rs:522-527)
cli_refuses(kind, node_id) == is_network(kind) /\ node_id = NoValue

\* connect_device of the front-end up to Device::init (main.rs:397-401): create, open,
\* set_mode if a node id was given, each followed by `?`: [ret, iface]
connect_interface(kind, node_id, open_ok, filter_ok) ==
    LET created == Interface_create(kind)
        o == open(created, open_ok)
        m == set_mode(o.iface, Specific(node_id[1]), filter_ok)
    IN  IF o.ret # Ok THEN [ret |-> o.ret, iface |-> o.iface]
        ELSE IF node_id # NoValue THEN [ret |-> m.ret, iface |-> m.iface]
        ELSE [ret |-> Ok, iface |-> o.iface]

\* what the nodes that took in `request` answer: the value asked for, or a refusal
AnswerMsgs(d, request) ==
    {Msg_new(request.request, "Ok", 0, from_word(DevValue(d, request.request))),
     Msg_new(request.request, "Error", 0, MsgData_new)}

\* what the receive side meets after a request that reached the nodes `to`: the answer
\* of one of them (on CAN on its response id), or nothing before the timeout, or an
\* I/O failure of the port or socket
AnswerArrivals(kind, d, request, to) ==
    {[kind |-> "frame", node |-> k, id |-> IF kind = "CAN" THEN CAN_BASE_ID + (2 * k)
                                          ELSE 0,
      data |-> TRUE, msg |-> m] :
        k \in to, m \in AnswerMsgs(d, request)}
    \cup {NoFrame("timeout")}
    \cup (IF kind = "SIM" THEN {} ELSE {NoFrame("io")})

\* one send/recv pair on the interface, as the Entry sees it
round_trip(s, r) ==
    IF s.ret # Ok THEN [kind |-> "send_err", err |-> s.ret.err[1], msg |-> NoValue]
    ELSE IF r.ret # Ok THEN [kind |-> "recv_err", err |-> r.ret.err[1], msg |-> NoValue]
    ELSE [kind |-> "resp", err |-> Err("", ""), msg |-> r.msg]

\* whether the port or socket does what is asked of it; the simulator has neither
IoChoices(kind) == IF kind = "SIM" THEN {TRUE} ELSE BOOLEAN

NoCall ==
    [call |-> "none", ret |-> Ok, mode |-> Broadcast, io_ok |-> TRUE, id |-> NoValue,
     to |-> {}, arrival |-> NoFrame("timeout"), msg |-> NoValue, frames |-> <<>>,
     nodes |-> <<>>, node_id |-> NoValue, outcome |-> "", filter_ok |-> TRUE]

InitNet ==
    /\ dev = CHOOSE d \in DeviceChoices : d.app_page_idx = 1
    /\ entries = [rt \in EntryRequests |-> NoValue]
    /\ flash_desc = FlashDesc_new(0, 0, 0)
    /\ pc = "net"
    /\ op = "none"
    /\ app_fw = NoValue
    /\ idx = 0
    /\ word = 0
    /\ log = <<>>
    /\ result = Some(NoCall)
    /\ ops = 0
    /\ entry \in {Interface_create(kind) : kind \in TransportKinds}
    /\ fw_data = NoValue
    /\ progress = <<>>
    /\ word_resp = NoValue

net_open ==
    /\ pc = "net"
    /\ \E open_ok \in IoChoices(entry.kind) :
         LET o == open(entry, open_ok)
         IN  /\ entry' = o.iface
             /\ result' = Some([NoCall EXCEPT !.call = "open", !.ret = o.ret,
                                               !.io_ok = open_ok])
    /\ UNCHANGED <<word_resp, fw_data, progress, dev, entries, flash_desc, pc, op, app_fw, idx, word, log, ops>>

net_set_mode ==
    /\ pc = "net"
    /\ \E mode \in {Broadcast} \cup {Specific(n) : n \in NodeChoices},
          filter_ok \in IoChoices(entry.kind) :
         LET m == set_mode(entry, mode, filter_ok)
         IN  /\ entry' = m.iface
             /\ result' = Some([NoCall EXCEPT !.call = "set_mode", !.ret = m.ret,
                                               !.mode = mode, !.filter_ok = filter_ok])
    /\ UNCHANGED <<word_resp, fw_data, progress, dev, entries, flash_desc, pc, op, app_fw, idx, word, log, ops>>

net_send ==
    /\ pc = "net"
    /\ \E io_ok \in IoChoices(entry.kind) :
         LET s == send(entry, io_ok)
         IN  result' = Some([NoCall EXCEPT !.call = "send", !.ret = s.ret, !.io_ok = io_ok,
                                           !.id = s.id, !.to = s.to])
    /\ UNCHANGED <<word_resp, fw_data, progress, dev, entries, flash_desc, pc, op, app_fw, idx, word, log, ops, entry>>

net_recv ==
    /\ pc = "net"
    /\ \E a \in Arrivals(entry.kind) :
         LET r == recv(entry, a)
         IN  result' = Some([NoCall EXCEPT !.call = "recv", !.ret = r.ret, !.arrival = a,
                                           !.msg = r.msg])
    /\ UNCHANGED <<word_resp, fw_data, progress, dev, entries, flash_desc, pc, op, app_fw, idx, word, log, ops, entry>>

\* scan_network in a build with or without overflow checks; frames arrive for it only
\* when it gets as far as its receive loop
net_scan ==
    /\ pc = "net"
    /\ \E io_ok \in IoChoices(entry.kind), filter_ok \in IoChoices(entry.kind) :
         \E frames \in IF scan_network(entry, io_ok, filter_ok, <<>>, FALSE).ret = Ok
                        THEN ScanArrivals(entry.kind) ELSE {<<>>},
            overflow_checks \in BOOLEAN :
           LET sc == scan_network(entry, io_ok, filter_ok, frames, overflow_checks)
           IN  /\ entry' = sc.iface
               /\ result' = Some([NoCall EXCEPT !.call = "scan", !.ret = sc.ret,
                                                 !.io_ok = io_ok, !.id = sc.sent,
                                                 !.frames = frames, !.nodes = sc.nodes,
                                                 !.filter_ok = filter_ok])
    /\ UNCHANGED <<word_resp, fw_data, progress, dev, entries, flash_desc, pc, op, app_fw, idx, word, log, ops>>

\* the record of a command of the front-end: "refused", "connecting" (inside
\* Device::init), "panic" (unwrap of a failed connect_device) or "done" (connected).
\* The command is a run of the program: with its outcome the run is over ("cli_done").
CliCall(node_id, outcome, ret, open_ok, filter_ok) ==
    [NoCall EXCEPT !.call = "cli", !.ret = ret, !.node_id = node_id, !.outcome = outcome,
                   !.io_ok = open_ok, !.filter_ok = filter_ok]

\* a command of the front-end on a transport of the same kind, up to the first request
\* of Device::init: the refusal, or connect_device's create, open and set_mode on an
\* interface of its own and Device::new
net_cli ==
    /\ pc = "net"
    /\ \E node_id \in {NoValue} \cup {Some(n) : n \in NodeChoices},
          open_ok \in IoChoices(entry.kind), filter_ok \in IoChoices(entry.kind) :
         IF cli_refuses(entry.kind, node_id)
         THEN /\ result' = Some(CliCall(node_id, "refused", Ok, open_ok, filter_ok))
              /\ pc' = "cli_done"
              /\ UNCHANGED <<entry, entries, log, idx>>
         ELSE LET c == connect_interface(entry.kind, node_id, open_ok, filter_ok)
              IN  /\ entry' = c.iface
                  /\ entries' = [rt \in EntryRequests |-> NoValue]
                  /\ log' = <<>>
                  /\ IF c.ret # Ok
                     THEN /\ result' = Some(CliCall(node_id, "panic", c.ret, open_ok,
                                                    filter_ok))
                          /\ pc' = "cli_done"
                          /\ UNCHANGED idx
                     ELSE /\ result' = Some(CliCall(node_id, "connecting", Ok, open_ok,
                                                    filter_ok))
                          /\ pc' = "cli_init"
                          /\ idx' = next_const(entries', 1)
    /\ UNCHANGED <<word_resp, fw_data, progress, dev, flash_desc, op, app_fw, word, ops>>

\* one pass of the loop of _read_const_data in the Device::init of connect_device
\* (main.rs:403-404), the round trip going over the interface of the command; an error
\* returns from init and connect_device and is unwrapped by the command
cli_init ==
    /\ pc = "cli_init"
    /\ LET rt == EntryTable[idx][2]
           request == new_std_request(rt)
       IN  \E io_ok \in IoChoices(entry.kind) :
             LET s == send(entry, io_ok)
             IN  \E a \in AnswerArrivals(entry.kind, dev, request, s.to) :
                   LET t == round_trip(s, recv(entry, a))
                       r == read_value(EntryTable[idx][1], rt, entries[rt], t)
                       lay == init_layout(entries')
                   IN  /\ log' = Append(log, LogEntry("read", request, r, t))
                       /\ entries' = [entries EXCEPT ![rt] = r.value]
                       /\ IF r.status # "Ok"
                          THEN /\ result' = Some([result[1] EXCEPT
                                                     !.outcome = "panic",
                                                     !.ret = Failed(r.err[1])])
                               /\ pc' = "cli_done"
                               /\ idx' = 0
                               /\ UNCHANGED flash_desc
                          ELSE IF next_const(entries', idx + 1) # 0
                          THEN /\ idx' = next_const(entries', idx + 1)
                               /\ UNCHANGED <<pc, result, flash_desc>>
                          ELSE /\ flash_desc' = lay.desc
                               /\ result' = Some([result[1] EXCEPT
                                                     !.outcome = IF lay.res = Ok THEN "done"
                                                                 ELSE "panic",
                                                     !.ret = lay.res])
                               /\ pc' = "cli_done"
                               /\ idx' = 0
    /\ UNCHANGED <<word_resp, fw_data, progress, dev, op, app_fw, word, ops, entry>>

NextNet == net_open \/ net_set_mode \/ net_send \/ net_recv \/ net_scan \/ net_cli \/ cli_init

SpecNet == InitNet /\ [][NextNet]_vars

\* ================================================================ properties
\* positions in the log of the requests of type request_type handed to the transport
ReqsOf(request_type) ==
    {k \in 1..Len(log) : log[k].req.request = request_type /\ log[k].sent}

\* positions in the log of the entry calls for request_type, whether or not the call
\* handed a request to the transport
CallsOf(request_type) ==
    {k \in 1..Len(log) : log[k].req.request = request_type}

\* flash() has returned Error(desc)
flash_failed_with(desc) ==
    /\ pc = "done"
    /\ op = "flash"
    /\ result = Some(Failed(Err("Error", desc)))

\* the log line k is a read that the device answered with the word w
ReadGave(k, w) ==
    /\ log[k].kind = "read"
    /\ log[k].fault = "none"
    /\ log[k].err = NoValue
    /\ to_word(log[k].data[1]) = w

\* Application.first_page_id
FirstPageId == get_section(flash_desc, "Application")[1].flash_page_id

\* C1: in a run of flash() the verification is a read of AppInfoCRCCalc, a request that
\* the device answers, and FlashWriteAppCRC is sent only after such a read of that run
\* returned the host-computed whole-image CRC; a run that fails before such a read
\* never sends FlashWriteAppCRC.
C1_AppCrcWrittenOnlyAfterMatch ==
    op = "flash" =>
        /\ \A k \in CallsOf("AppInfoCRCCalc") : log[k].sent
        /\ \A k \in ReqsOf("FlashWriteAppCRC") :
              \E j \in ReqsOf("AppInfoCRCCalc") : j < k /\ ReadGave(j, app_fw[1].crc)
        /\ (/\ pc = "done"
            /\ result[1].status = "Err"
            /\ ~\E j \in ReqsOf("AppInfoCRCCalc") : ReadGave(j, app_fw[1].crc))
           => ReqsOf("FlashWriteAppCRC") = {}

\* the verification of flash() did not ask the device: read_value of AppInfoCRCCalc
\* sent nothing and flash() was cut off
C1_VerificationSendsNothing ==
    /\ op = "flash"
    /\ pc = "panicked"
    /\ CallsOf("AppInfoCRCCalc") # {}
    /\ ReqsOf("AppInfoCRCCalc") = {}

\* the requests that erase or write flash pages
PageModifyingReqs == ReqsOf("FlashWriteErasePage") \cup ReqsOf("PageBufferWriteToFlash")

\* C2: flash() reads the PageBufferCalcCRC value of each page from the device, and when
\* it fails because the value of a page (any page of the image) differs from the host's
\* CRC of that page, no FlashWriteErasePage and no PageBufferWriteToFlash has been
\* issued during that flash() call.
C2_NoPageModifiedOnPageCrcFailure ==
    /\ op = "flash" => \A k \in CallsOf("PageBufferCalcCRC") : log[k].sent
    /\ flash_failed_with("Page buffer CRC is invalid") => PageModifyingReqs = {}

\* flash() ended at the page buffer CRC of its first page without a request for it and
\* without an Error: no page was erased or written, and none can be
C2_FlashCutOffAtPageCrc ==
    /\ op = "flash"
    /\ pc = "panicked"
    /\ idx = 1
    /\ log[Len(log)].req.request = "PageBufferCalcCRC"
    /\ ~log[Len(log)].sent
    /\ result = NoValue

\* C3: flash() reads AppInfoCRCCalc, from the device, at most twice; when the second
\* read still differs from the host whole-image CRC, flash() fails with
\* Error("CRC check failed") and neither FlashWriteAppCRC nor StartApp is sent.
C3_CrcReadAtMostTwice ==
    op = "flash" =>
        /\ Cardinality(CallsOf("AppInfoCRCCalc")) <= 2
        /\ \A k \in CallsOf("AppInfoCRCCalc") : log[k].sent /\ log[k].recvd
        /\ \A k \in ReqsOf("AppInfoCRCCalc") :
              (/\ \E j \in ReqsOf("AppInfoCRCCalc") : j < k
               /\ log[k].err = NoValue
               /\ to_word(log[k].data[1]) # app_fw[1].crc)
              => /\ flash_failed_with("CRC check failed")
                 /\ ReqsOf("FlashWriteAppCRC") = {}
                 /\ ReqsOf("StartApp") = {}

\* the page ids below image.page_count that the image has no page for
UnusedPageIds ==
    {p \in 0..(Len(app_fw[1].page_lst) - 1) :
        \A j \in 1..Len(app_fw[1].page_lst) : app_fw[1].page_lst[j].id # p}

\* the four payload bytes that carry the word n on the wire, lowest byte first
WordBytes(n) ==
    <<n % 256, (n \div 256) % 256, (n \div 65536) % 256, (n \div 16777216) % 256>>

\* the requests flash() has to send for one page: request code, packet id, payload
PageRequests(page, page_size, first_page_id) ==
    <<[request |-> "PageBufferClear", packet_id |-> 0, data |-> WordBytes(0)]>>
    \o [i \in 1..(page_size \div 4) |->
          [request |-> "PageBufferWriteWord", packet_id |-> (i - 1) % 256,
           data |-> SubSeq(page.bytes, (4 * (i - 1)) + 1, 4 * i)]]
    \o <<[request |-> "PageBufferCalcCRC", packet_id |-> 0, data |-> WordBytes(0)],
         [request |-> "FlashWriteErasePage", packet_id |-> 0,
          data |-> WordBytes(page.id + first_page_id)],
         [request |-> "PageBufferWriteToFlash", packet_id |-> 0,
          data |-> WordBytes(page.id + first_page_id)]>>

\* ... for the pages of the image from position j on
RECURSIVE ImageRequests(_, _, _)
ImageRequests(fw, j, first_page_id) ==
    IF j > Len(fw.page_lst) THEN <<>>
    ELSE PageRequests(fw.page_lst[j], fw.flash_page_size, first_page_id)
         \o ImageRequests(fw, j + 1, first_page_id)

\* C5: a successful flash() ends, after the last page was committed, with a read of
\* AppInfoCRCCalc, FlashWriteAppCRC carrying the host-computed whole-image CRC and
\* StartApp with payload 0, in this order; StartApp is the last request and is sent
\* only after FlashWriteAppCRC was acknowledged. What flash() does after the last page
\* was committed begins with that read, a request to the device.
C5_SuccessEndsWithCrcCommitAndStart ==
    /\ (pc = "done" /\ op = "flash" /\ result = Some(Ok)) =>
          LET n == Len(log)
          IN  /\ n >= 3
              /\ log[n - 2].req.request = "AppInfoCRCCalc"
              /\ ReadGave(n - 2, app_fw[1].crc)
              /\ log[n - 1].req.request = "FlashWriteAppCRC"
              /\ to_word(log[n - 1].req.data) = app_fw[1].crc
              /\ log[n - 1].fault = "none"
              /\ log[n].req.request = "StartApp"
              /\ log[n].req.data = WordBytes(0)
              /\ ReqsOf("FlashWriteAppCRC") = {n - 1}
              /\ ReqsOf("StartApp") = {n}
              /\ \A k \in ReqsOf("PageBufferWriteToFlash") :
                    \A j \in ReqsOf("AppInfoCRCCalc") : k < j
    /\ (op = "flash" /\ app_fw # NoValue) =>
          LET n == Len(ImageRequests(app_fw[1], 1, FirstPageId)) + 1
          IN  Len(log) >= n =>
                 /\ log[n].req.request = "AppInfoCRCCalc"
                 /\ log[n].kind = "read"
                 /\ log[n].sent
    /\ op = "flash" =>
          \A k \in ReqsOf("StartApp") :
              /\ k = Len(log)
              /\ k > 1
              /\ log[k - 1].req.request = "FlashWriteAppCRC"
              /\ log[k - 1].fault = "none"
              /\ log[k - 1].err = NoValue

\* C6: for every page the image holds, flash() sends PageBufferClear(0), page_size/4
\* PageBufferWriteWord in ascending word index, one PageBufferCalcCRC read,
\* FlashWriteErasePage(p) and PageBufferWriteToFlash(p), p = page_id + first page id of
\* the Application section; each page once, the requests of two pages never interleaved.
C6_PageRequestSequence ==
    (op = "flash" /\ app_fw # NoValue) =>
        LET expected == ImageRequests(app_fw[1], 1, FirstPageId)
            crc_reads == CallsOf("AppInfoCRCCalc")
            n == IF crc_reads = {} THEN Len(log)
                 ELSE (CHOOSE k \in crc_reads : \A j \in crc_reads : k <= j) - 1
        IN  /\ \A i, j \in 1..Len(app_fw[1].page_lst) :
                  i # j => app_fw[1].page_lst[i].id # app_fw[1].page_lst[j].id
            /\ n <= Len(expected)
            /\ \A k \in 1..n :
                  /\ log[k].sent
                  /\ log[k].req.request = expected[k].request
                  /\ log[k].req.packet_id = expected[k].packet_id
                  /\ log[k].req.data = expected[k].data
            /\ (pc = "check_crc1" \/ n < Len(log)) => n = Len(expected)

\* the part of the sequence that flash() sends: of each page it reaches, the clear and
\* the words
C6_ClearAndWordsAsListed ==
    (op = "flash" /\ app_fw # NoValue) =>
        LET expected == ImageRequests(app_fw[1], 1, FirstPageId)
        IN  \A k \in 1..Len(log) :
                log[k].sent =>
                   /\ k <= Len(expected)
                   /\ log[k].req.request \in {"PageBufferClear", "PageBufferWriteWord"}
                   /\ log[k].req.request = expected[k].request
                   /\ log[k].req.packet_id = expected[k].packet_id
                   /\ log[k].req.data = expected[k].data

\* C7: erase() sends one FlashWriteErasePage for each page id of the Application
\* section, ascending, and nothing else; each only after the one before was acknowledged.
C7_EraseSendsEachAppPageOnce ==
    (op = "erase" /\ pc # "panicked") =>
        LET pages == [k \in 1..(dev.num_pages - dev.app_page_idx) |->
                         dev.app_page_idx + (k - 1)]
        IN  /\ Len(log) <= Len(pages)
            /\ \A k \in 1..Len(log) :
                  /\ log[k].kind = "exec"
                  /\ log[k].sent
                  /\ log[k].req.request = "FlashWriteErasePage"
                  /\ log[k].req.data = WordBytes(pages[k])
                  /\ k < Len(log) => (log[k].fault = "none" /\ log[k].err = NoValue)
            /\ (pc = "done" /\ result = Some(Ok)) => Len(log) = Len(pages)

\* C7 witness: erase() has erased an Application section of two or more pages
C7_Witness ==
    /\ op = "erase"
    /\ pc = "done"
    /\ result = Some(Ok)
    /\ Len(log) >= 2

\* C8: no retries: in init(), erase(), flash() and reset() the first round trip that
\* fails (send, recv, result code, echo) ends the operation, its error is what the
\* operation returns, and no request follows it.
C8_FirstFailureAborts ==
    \A k \in 1..Len(log) :
        (op \in {"init", "erase", "flash", "reset"} /\ log[k].fault # "none") =>
            /\ k = Len(log)
            /\ pc = "done"
            /\ result # NoValue
            /\ result[1].status = "Err"
            /\ result[1].err = log[k].err
            /\ log[k].fault \in {"send", "recv"} => result[1].err = log[k].terr
            /\ log[k].fault = "result" => result[1].err[1].kind = "ResultError"
            /\ log[k].fault = "corrupt" => result[1].err[1].kind = "MsgCorruption"

\* what holds of C8: a round trip that returned (send or recv error, result code, echo)
\* ends the operation with its error, and a round trip whose recv panicked is the last
\* of the log as well, but nothing is returned from it
C8_ReturnedFailureAborts ==
    \A k \in 1..Len(log) :
        /\ log[k].fault \in {"send", "recv", "result", "corrupt"} =>
              /\ log[k].fault \in {"send", "recv"} => result[1].err = log[k].terr
              /\ k = Len(log)
              /\ pc = "done"
              /\ result # NoValue
              /\ result[1].status = "Err"
              /\ result[1].err = log[k].err
        /\ log[k].fault = "panic" =>
              /\ k = Len(log)
              /\ pc = "panicked"

\* an operation was cut off by a recv that panicked, after round trips that went well
C8_PanicInRecv ==
    /\ pc = "panicked"
    /\ op = "flash"
    /\ Len(log) >= 2
    /\ log[Len(log)].fault = "panic"

\* C8 witness: flash() ended on a frame that did not echo the request, after
\* round trips that went well
C8_Witness ==
    /\ pc = "done"
    /\ op = "flash"
    /\ Len(log) >= 2
    /\ log[Len(log)].fault = "corrupt"

\* C9: a Const entry whose value has been read never asks the device again: a later
\* read_value returns the stored value without send or recv.
C9_ConstReadOnce ==
    entry.entry_type = "Const" =>
        \A j, k \in 1..Len(log) :
            (/\ j < k
             /\ log[j].kind = "read" /\ log[k].kind = "read"
             /\ log[j].sent /\ log[j].err = NoValue) =>
                /\ ~log[k].sent
                /\ ~log[k].recvd
                /\ log[k].err = NoValue
                /\ log[k].data = log[j].data

\* C9 witness: a read failed, the next one got the value, a third one was served
C9_Witness ==
    /\ entry.entry_type = "Const"
    /\ Len(log) = 3
    /\ \A k \in 1..3 : log[k].kind = "read"
    /\ log[1].err # NoValue
    /\ log[2].sent /\ log[2].err = NoValue
    /\ ~log[3].sent

\* C10: read_value on an RO or RW entry sends a request and receives a response on
\* every call, and returns the payload of that response.
C10_ReadableEntryAsksEveryTime ==
    entry.entry_type \in {"RO", "RW"} =>
        /\ pc # "panicked"
        /\ \A k \in 1..Len(log) :
              log[k].kind = "read" =>
                  /\ log[k].sent
                  /\ log[k].fault = "none" => (log[k].recvd /\ log[k].err = NoValue)

\* C11: read_value on a Cmd entry, write_value on an entry that is not RW and exec on
\* an entry that is not Cmd fail with Error and call neither send nor recv.
C11_CategoryGuards ==
    pc \in {"entry", "panicked"} =>
        \A k \in 1..Len(log) :
            (\/ log[k].kind = "read" /\ entry.entry_type = "Cmd"
             \/ log[k].kind = "write" /\ entry.entry_type # "RW"
             \/ log[k].kind = "exec" /\ entry.entry_type # "Cmd")
            => /\ log[k].err # NoValue
               /\ log[k].err[1].kind = "Error"
               /\ ~log[k].sent
               /\ ~log[k].recvd
               /\ k = Len(log) => (pc = "entry" /\ result[1].status = "Err")

\* C11 witness: a Cmd entry refused a read_value, a write_value and then ran an exec
C11_Witness ==
    /\ pc = "entry"
    /\ entry.entry_type = "Cmd"
    /\ Len(log) = 3
    /\ log[1].kind = "read" /\ log[2].kind = "write" /\ log[3].kind = "exec"
    /\ log[3].sent

\* the response of the last write_value or exec call agrees with the request in
\* request code and packet id and carries a success result code
HeaderOk(request, response) ==
    /\ response.request = request.request
    /\ response.result \in {"None", "Ok"}
    /\ response.packet_id = request.packet_id

\* C12 (as stated): write_value and exec succeed only if the response passes
\* is_response_ok and echoes the request payload unchanged; a response whose payload
\* differs from the request payload makes the call fail with MsgCorruption.
C12_DifferingPayloadGivesMsgCorruption ==
    (pc = "entry" /\ Len(log) > 0 /\ log[Len(log)].kind \in {"write", "exec"}) =>
        LET request == log[Len(log)].req
            res == result[1]
        IN  /\ res.status = "Ok" =>
                /\ res.resp # NoValue
                /\ HeaderOk(request, res.resp[1])
                /\ res.resp[1].data = request.data
            /\ (res.resp # NoValue /\ res.resp[1].data # request.data) =>
                /\ res.status = "Err"
                /\ res.err[1].kind = "MsgCorruption"

\* C12 (amended): write_value and exec succeed only if the response passes
\* is_response_ok and echoes the request payload unchanged; a response whose payload
\* differs from the request payload makes the call fail: with ResultError where its
\* result code is not a success, with MsgCorruption otherwise.
C12_WriteNeedsEcho ==
    (pc = "entry" /\ Len(log) > 0 /\ log[Len(log)].kind \in {"write", "exec"}) =>
        LET request == log[Len(log)].req
            res == result[1]
        IN  /\ res.status = "Ok" =>
                /\ res.resp # NoValue
                /\ HeaderOk(request, res.resp[1])
                /\ res.resp[1].data = request.data
                /\ res.ret = Some(request.data)
            /\ (res.resp # NoValue /\ res.resp[1].data # request.data) =>
                /\ res.status = "Err"
                /\ res.err[1].kind = IF res.resp[1].result \in {"None", "Ok"}
                                     THEN "MsgCorruption"
                                     ELSE "ResultError"

\* C12 witness: a write_value with packet id 5 got back a response with its request
\* code and packet id, another payload and a result code that is no success
C12_Witness ==
    /\ pc = "entry"
    /\ Len(log) > 0
    /\ log[Len(log)].kind = "write"
    /\ log[Len(log)].req.packet_id = 5
    /\ result[1].resp # NoValue
    /\ result[1].resp[1].request = log[Len(log)].req.request
    /\ result[1].resp[1].packet_id = 5
    /\ result[1].resp[1].result \notin {"None", "Ok"}
    /\ result[1].resp[1].data # log[Len(log)].req.data
    /\ result[1].status = "Err"
    /\ result[1].err[1].kind = "ResultError"

\* a response that is right in all but the payload gave MsgCorruption
C12_PayloadAloneDiffers ==
    /\ pc = "entry"
    /\ Len(log) > 0
    /\ log[Len(log)].kind \in {"write", "exec"}
    /\ result[1].resp # NoValue
    /\ HeaderOk(log[Len(log)].req, result[1].resp[1])
    /\ result[1].resp[1].data # log[Len(log)].req.data
    /\ result[1].status = "Err"
    /\ result[1].err[1].kind = "MsgCorruption"

\* C13: is_response_ok succeeds exactly when the response has the request's code, a
\* result code of None or Ok, and the request's packet id.
C13_ResponseOkIff ==
    pc = "checked" =>
        LET response == result[1].value[1]
        IN  (op = "Ok") <=>
                /\ response.request = entry.request.request
                /\ response.result \in {"None", "Ok"}
                /\ response.packet_id = entry.request.packet_id

\* C13 witness: a response with result code None, accepted
C13_Witness ==
    /\ pc = "checked"
    /\ op = "Ok"
    /\ result[1].value[1].result = "None"
    /\ entry.request.packet_id = 5

\* C14: is_response_ok fails with ResultError when the result code is not a success
\* code, with MsgCorruption when the result code is a success code and the request
\* code or the packet id disagrees, and with no other kind.
C14_FailureKinds ==
    pc = "checked" =>
        LET response == result[1].value[1]
            success == response.result \in {"None", "Ok"}
        IN  /\ op \in {"Ok", "ResultError", "MsgCorruption"}
            /\ ~success => op = "ResultError"
            /\ (success /\ (response.request # entry.request.request
                            \/ response.packet_id # entry.request.packet_id))
                   => op = "MsgCorruption"

\* C14 witness: a response with an error result code and a foreign packet id
C14_Witness ==
    /\ pc = "checked"
    /\ op = "ResultError"
    /\ result[1].value[1].result = "ErrCRCInvld"
    /\ result[1].value[1].packet_id # entry.request.packet_id

\* C15: decoding the frame a message was encoded to gives the message back, and the
\* frame has 8 bytes.
C15_RoundTrip ==
    /\ (pc \in {"wire", "decoded", "checked", "panicked"}) => Len(log) = 8
    /\ (pc \in {"decoded", "checked", "panicked"} /\ ops = 0) =>
           result = Some(Converted(entry.response))

\* C15 witness: FlashWriteAppCRC with ErrInvldArg, packet id 5 and 0x01020304 came back
C15_Witness ==
    /\ pc = "decoded"
    /\ ops = 0
    /\ entry.response = Msg_new("FlashWriteAppCRC", "ErrInvldArg", 5, from_word(<<258, 772>>))
    /\ result[1].value[1] = entry.response

\* C16: bytes 0-1 of a frame are the request code, low byte first, byte 2 the result
\* code, byte 3 the packet id, bytes 4-7 the payload word, low byte first; Ping, Ok,
\* packet id 5 and the word 0x01020304 make 01 00 01 05 04 03 02 01.
C16_FrameLayout ==
    (pc = "wire" /\ ops = 0) =>
        LET m == entry.response
            code == RequestType_to_u16(m.request)
            w == to_word(m.data)
        IN  /\ log[1] = code % 256
            /\ log[2] = code \div 256
            /\ log[3] = ResultType_to_u8(m.result)
            /\ log[4] = m.packet_id
            /\ log[5] = w[2] % 256
            /\ log[6] = w[2] \div 256
            /\ log[7] = w[1] % 256
            /\ log[8] = w[1] \div 256
            /\ (m.request = "Ping" /\ m.result = "Ok" /\ m.packet_id = 5
                    /\ w = <<258, 772>>)
                   => log = <<1, 0, 1, 5, 4, 3, 2, 1>>

\* C16 witness: the frame of Ping, Ok, packet id 5, 0x01020304 is on the wire
C16_Witness ==
    /\ pc = "wire"
    /\ ops = 0
    /\ entry.response = Msg_new("Ping", "Ok", 5, from_word(<<258, 772>>))
    /\ log = <<1, 0, 1, 5, 4, 3, 2, 1>>

\* the result codes as the protocol description lists them
ListedResultCodes ==
    {<<"None", 0>>, <<"Ok", 1>>, <<"Error", 254>>, <<"ErrUnknownReq", 253>>,
     <<"ErrNotSupported", 252>>, <<"ErrCRCInvld", 251>>, <<"AckPageFull", 250>>,
     <<"ErrPageFull", 249>>, <<"ErrInvldArg", 248>>}

\* C17: in both directions the result codes are None=0x00, Ok=0x01, Error=0xFE,
\* ErrUnknownReq=0xFD, ErrNotSupported=0xFC, ErrCRCInvld=0xFB, AckPageFull=0xFA,
\* ErrPageFull=0xF9, ErrInvldArg=0xF8: byte 2 of an encoded frame is the listed code
\* of the message's result, and a frame decodes to the result listed for its byte 2.
C17_ResultCodes ==
    pc = "wire" =>
        \A p \in ListedResultCodes :
            /\ (ops = 0 /\ entry.response.result = p[1]) => log[3] = p[2]
            /\ log[3] = p[2] => ResultType_from_u8(log[3]) = Converted(p[1])

\* the frame carries a request code or a result code that no member of the
\* enumerations has
UnknownCode(frame) ==
    \/ frame[1] + (frame[2] * 256) \notin {RequestType_to_u16(r) : r \in RequestTypes}
    \/ frame[3] \notin {ResultType_to_u8(r) : r \in ResultTypes}

\* C18: decoding a frame with an unknown request or result code hands the caller an
\* error, and never a message with a default code.
C18_UnknownCodeIsAnError ==
    (pc \in {"decoded", "checked", "panicked"} /\ UnknownCode(log)) =>
        result[1].status = "Err"

\* C19: after a successful init() on a device reporting (start, page_size, num_pages,
\* app_page_idx) the flash description holds exactly two sections: Bootloader at start
\* with size app_page_idx * page_size, and Application at
\* start + app_page_idx * page_size with size (num_pages - app_page_idx) * page_size
\* and first page id app_page_idx.
C19_InitBuildsTwoSections ==
    (pc = "done" /\ op = "init" /\ result = Some(Ok)) =>
        LET lst == flash_desc.section_lst
        IN  /\ Len(lst) = 2
            /\ lst[1].name = "Bootloader"
            /\ lst[1].address = dev.start
            /\ lst[1].size = dev.app_page_idx * dev.page_size
            /\ lst[2].name = "Application"
            /\ lst[2].address = dev.start + (dev.app_page_idx * dev.page_size)
            /\ lst[2].size = (dev.num_pages - dev.app_page_idx) * dev.page_size
            /\ lst[2].flash_page_id = dev.app_page_idx

\* C19 witness: init() succeeded on a device whose application starts at page 2
C19_Witness ==
    /\ pc = "done"
    /\ op = "init"
    /\ result = Some(Ok)
    /\ dev.app_page_idx = 2
    /\ Len(flash_desc.section_lst) = 2

\* the sections the description held before the last add_section call
PriorSections ==
    IF result[1].status = "Ok"
    THEN SubSeq(flash_desc.section_lst, 1, Len(flash_desc.section_lst) - 1)
    ELSE flash_desc.section_lst

\* the bytes [address, address + size) and the bytes of `section` have a byte in common
SharesBytes(section, address, size) ==
    /\ address < section.address + section.size
    /\ section.address < address + size

\* C20: add_section rejects a section whose address is not page-aligned, whose size is
\* no multiple of the page size, that ends past the end of the flash, that shares
\* bytes with a section added before, or whose name a section added before has; a
\* section with one of these defects only is rejected with the kind of that defect.
C20_AddSectionRejects ==
    (pc = "flash_desc" /\ result # NoValue) =>
        LET r == result[1]
            unaligned == r.address % flash_desc.page_size # 0
            odd_size == r.size % flash_desc.page_size # 0
            too_big == r.address + r.size > flash_desc.address + flash_desc.size
            overlap == \E k \in 1..Len(PriorSections) :
                           SharesBytes(PriorSections[k], r.address, r.size)
            same_name == \E k \in 1..Len(PriorSections) : PriorSections[k].name = r.name
        IN  /\ (unaligned \/ odd_size \/ too_big \/ overlap \/ same_name) => r.status # "Ok"
            /\ (unaligned /\ ~odd_size /\ ~too_big /\ ~overlap /\ ~same_name)
                   => r.status = "FlashSectionAddressInvalid"
            /\ (odd_size /\ ~unaligned /\ ~too_big /\ ~overlap /\ ~same_name)
                   => r.status = "FlashSectionSizeInvalid"
            /\ (too_big /\ ~unaligned /\ ~odd_size /\ ~overlap /\ ~same_name)
                   => r.status = "FlashSectionSizeTooBig"
            /\ (overlap /\ ~unaligned /\ ~odd_size /\ ~too_big /\ ~same_name)
                   => r.status = "FlashAreaAlreadyUsed"
            /\ (same_name /\ ~unaligned /\ ~odd_size /\ ~too_big /\ ~overlap)
                   => r.status = "FlashNameAlreadyUsed"

\* C21: whatever add_section calls were made, the sections the description holds start
\* on a page boundary, are a whole number of pages long, lie inside
\* [flash base, flash base + flash size) and share no byte with one another.
C21_SectionsAlignedDisjointInside ==
    pc = "flash_desc" =>
        LET lst == flash_desc.section_lst
        IN  /\ \A k \in 1..Len(lst) :
                  /\ lst[k].address % flash_desc.page_size = 0
                  /\ lst[k].size % flash_desc.page_size = 0
                  /\ lst[k].address >= flash_desc.address
                  /\ lst[k].address + lst[k].size <= flash_desc.address + flash_desc.size
            /\ \A j, k \in 1..Len(lst) :
                  j < k => ~SharesBytes(lst[j], lst[k].address, lst[k].size)

\* the bytes handed to the append_firmware calls made so far, a later call's byte
\* replacing an earlier one's at the same address
RECURSIVE InputUpTo(_)
InputUpTo(n) ==
    IF n = 0 THEN << >>
    ELSE LET earlier == InputUpTo(n - 1)
             data == log[n].data
         IN  [a \in (DOMAIN earlier) \cup (DOMAIN data) |->
                 IF a \in DOMAIN data THEN data[a] ELSE earlier[a]]

AllAppendsOk == \A k \in 1..Len(log) : log[k].ok

\* C22: after successful appends every input byte at address a is held in the page
\* with id (a - app_base) / page_size at offset (a - app_base) mod page_size, every
\* held page is page_size bytes long, every other byte of a held page is 0xFF, and a
\* page is held only for a page id that an input byte falls into.
C22_BytesPlacedInPages ==
    (pc = "firmware" /\ Len(log) > 0 /\ AllAppendsOk) =>
        LET fw == app_fw[1]
            input == InputUpTo(Len(log))
            page_of(a) == (a - AppBase) \div PageSize
            offset_of(a) == (a - AppBase) % PageSize
            ids == {fw.page_lst[k].id : k \in 1..Len(fw.page_lst)}
        IN  /\ ids = {page_of(a) : a \in DOMAIN input}
            /\ Cardinality(ids) = Len(fw.page_lst)
            /\ \A k \in 1..Len(fw.page_lst) :
                  LET page == fw.page_lst[k]
                  IN  /\ Len(page.bytes) = PageSize
                      /\ page.address = AppBase + (page.id * PageSize)
                      /\ \A i \in 0..(PageSize - 1) :
                            page.bytes[i + 1] =
                                IF page.address + i \in DOMAIN input
                                THEN input[page.address + i]
                                ELSE 255
            /\ \A a \in DOMAIN input :
                  \E k \in 1..Len(fw.page_lst) :
                      /\ fw.page_lst[k].id = page_of(a)
                      /\ fw.page_lst[k].bytes[offset_of(a) + 1] = input[a]

\* C22 witness: bytes of page 2 were appended, then a byte of page 0; no page 1 is held
C22_Witness ==
    /\ pc = "firmware"
    /\ Len(log) = 2
    /\ AllAppendsOk
    /\ Len(app_fw[1].page_lst) = 2
    /\ app_fw[1].page_lst[1].id = 2
    /\ app_fw[1].page_lst[2].id = 0
    /\ app_fw[1].page_lst[2].bytes[2] = 171

\* C23: append_firmware fails with an error when the byte map has an address below
\* app_base, or an address whose page id (address - app_base) / page_size is not less
\* than the number of application pages.
C23_AppendRejectsOutOfRange ==
    (pc = "firmware" /\ Len(log) > 0) =>
        LET data == log[Len(log)].data
            below == \E a \in DOMAIN data : a < AppBase
            beyond == \E a \in DOMAIN data :
                          a >= AppBase /\ (a - AppBase) \div PageSize >= AppNumPages
        IN  (below \/ beyond) =>
                /\ ~log[Len(log)].ok
                /\ result[1].status = "Err"
                /\ result[1].err[1].kind = "Error"

\* C23 witness: one append was refused for a byte below the application area, one
\* for a byte past its last page
C23_Witness ==
    /\ pc = "firmware"
    /\ Len(log) = 2
    /\ ~log[1].ok
    /\ ~log[2].ok
    /\ \E a \in DOMAIN log[1].data : a < AppBase
    /\ \A a \in DOMAIN log[2].data : (a - AppBase) \div PageSize >= AppNumPages

\* the image as the device holds it once every held page is written and every other
\* page erased, without its last four bytes
ImageBytes(input) ==
    [i \in 1..((AppNumPages * PageSize) - 4) |->
        IF AppBase + (i - 1) \in DOMAIN input THEN input[AppBase + (i - 1)] ELSE 255]

\* C24: the whole-image CRC is the CRC-32 of the pages 0 .. flash_num_pages - 1 in
\* ascending order, a page the image does not hold counting as all 0xFF, without the
\* last four bytes; it depends neither on the order the pages were created in nor on
\* what the last four bytes are.
C24_ImageCrc ==
    (pc = "firmware" /\ Len(log) > 0 /\ AllAppendsOk) =>
        /\ app_fw[1].crc = CRC32_checksum(ImageBytes(InputUpTo(Len(log))))
        /\ Len(page_bytes_from(app_fw[1], 0)) = AppNumPages * PageSize

\* C24 witness: page 2 was created before page 0 and the last byte of the image is set
C24_Witness ==
    /\ pc = "firmware"
    /\ Len(log) = 2
    /\ AllAppendsOk
    /\ Len(app_fw[1].page_lst) = 2
    /\ app_fw[1].page_lst[1].id = 2
    /\ app_fw[1].page_lst[2].id = 0
    /\ app_fw[1].page_lst[1].bytes[PageSize] = 0

\* the calls the driver made on the transport for the first n lines of the log, in
\* order: a send that went through, a send that failed, a recv
RECURSIVE TransportCalls(_)
TransportCalls(n) ==
    IF n = 0 THEN <<>>
    ELSE TransportCalls(n - 1)
         \o (IF log[n].sent
             THEN <<IF log[n].fault = "send" THEN "send_err" ELSE "send_ok">>
             ELSE <<>>)
         \o (IF log[n].recvd THEN <<"recv">> ELSE <<>>)

\* C25: on the transport the driver alternates between send and recv: a send that
\* went through is followed by exactly one recv before the next send, a recv follows
\* nothing but such a send, and no recv follows a send that failed.
C25_SendRecvAlternate ==
    LET calls == TransportCalls(Len(log))
    IN  \A i \in 1..Len(calls) :
            /\ calls[i] = "send_ok" => (i < Len(calls) /\ calls[i + 1] = "recv")
            /\ calls[i] = "recv" => (i > 1 /\ calls[i - 1] = "send_ok")
            /\ calls[i] = "send_err" => (i = Len(calls) /\ pc = "done")

\* C25 witness: flash() made round trips and then a send failed
C25_Witness ==
    /\ pc = "done"
    /\ op = "flash"
    /\ Len(log) >= 3
    /\ log[Len(log)].fault = "send"
    /\ log[Len(log) - 1].recvd

\* C26: on every transport recv fails with ComNoResponse when nothing arrives within the
\* timeout, and a hard I/O failure is reported as an error other than ComNoResponse.
C26_TimeoutIsComNoResponse ==
    (pc = "net" /\ result[1].call = "recv" /\ (entry.open \/ entry.kind = "SIM")) =>
        /\ result[1].arrival.kind = "timeout" =>
               result[1].ret = Failed(Err("ComNoResponse", ""))
        /\ result[1].arrival.kind = "io" =>
               (result[1].ret # Ok /\ result[1].ret # Failed(Err("ComNoResponse", "")))

\* C27: after set_mode(Specific(N)) on a network transport a request that was sent
\* reaches no node other than N, and a response that recv returns comes from node N.
C27_SpecificReachesOnlyThatNode ==
    (pc = "net" /\ is_network(entry.kind) /\ entry.mode.specific) =>
        /\ (result[1].call = "send" /\ result[1].ret = Ok) =>
               result[1].to \subseteq {entry.mode.node}
        /\ (result[1].call = "recv" /\ result[1].ret = Ok) =>
               result[1].arrival.node = entry.mode.node

\* C28: on CAN, set_mode(Specific(N)) installs the receive filter with id 0x781 + 2*N
\* and mask 0x7FF, the id on which the responses of node N arrive: a response of node N
\* is accepted, a frame with any other id is rejected.
C28_FilterIdIsBasePlusTwiceNode ==
    (pc = "net" /\ entry.kind = "CAN" /\ entry.mode.specific) =>
        /\ entry.filter = <<CAN_BASE_ID + (2 * entry.mode.node), 2047>>
        /\ result[1].call = "recv" /\ result[1].arrival.kind = "frame"
               /\ result[1].arrival.data =>
               (result[1].ret = Ok <=>
                    result[1].arrival.id = CAN_BASE_ID + (2 * entry.mode.node))

\* the filter that set_mode(Specific(N)) installs lets no id pass but 0x781 + 2*N + 1,
\* and no data frame of a node is returned by recv in that mode
C28_FilterIsOneIdHigher ==
    (pc = "net" /\ entry.kind = "CAN" /\ entry.mode.specific) =>
        LET rx_id == CAN_BASE_ID + (2 * entry.mode.node) + 1
        IN  /\ entry.filter = <<rx_id, 2047>>
            /\ \A id \in 0..2047 : filter_accepts(entry.filter, id) <=> id = rx_id
            /\ result[1].call = "recv" /\ result[1].arrival.kind = "frame"
                   /\ result[1].arrival.node \in BusNodes =>
                   result[1].ret # Ok

\* the response of node 3 on 0x787 did not pass the filter of Specific(3)
C28_ResponseOfNodeRejected ==
    /\ pc = "net" /\ entry.kind = "CAN" /\ entry.mode = Specific(3)
    /\ result[1].call = "recv"
    /\ result[1].arrival.kind = "frame" /\ result[1].arrival.data
    /\ result[1].arrival.id = 1927 /\ result[1].arrival.node = 3
    /\ result[1].ret # Ok

\* the positions of the arrived frames that count as an answer to the Ping of the scan
ScanAnswers ==
    {i \in 1..Len(result[1].frames) :
        /\ (entry.kind = "CAN" => result[1].frames[i].data)
        /\ is_response_ok(new_std_request("Ping"), result[1].frames[i].msg) = "Ok"}

\* C29: scan_network sends one Ping in broadcast mode and returns, in arrival order, the
\* node ids of exactly the responders whose frame passes is_response_ok for that Ping,
\* each node id being (arbitration id - 0x781) / 2 on CAN.
C29_ScanReturnsResponders ==
    (pc = "net" /\ is_network(entry.kind) /\ result[1].call = "scan"
        /\ (entry.kind = "CAN" => (entry.open /\ result[1].io_ok /\ result[1].filter_ok))) =>
        /\ result[1].ret = Ok
        /\ entry.kind = "CAN" =>
               (result[1].id = Some(CAN_BROADCAST_ID) /\ entry.mode = Broadcast
                    /\ entry.filter = <<0, 0>>)
        /\ Len(result[1].nodes) = Cardinality(ScanAnswers)
        /\ \A i \in ScanAnswers :
               LET k == Cardinality({j \in ScanAnswers : j <= i})
               IN  /\ result[1].nodes[k] = result[1].frames[i].node
                   /\ entry.kind = "CAN" =>
                          result[1].nodes[k] = (result[1].frames[i].id - 1921) \div 2

\* every frame that arrived during the scan is on an id from 0x781 up
ScanFramesFromNodes ==
    \A i \in 1..Len(result[1].frames) : result[1].frames[i].id >= CAN_BASE_ID

\* what holds of C29: when the socket is open and takes the filter and the Ping, and
\* every frame that arrives is on an id from 0x781 up, the scan returns the node ids of
\* the answers in arrival order; a scan that was refused leaves the filter as it was
C29_ScanReturnsRespondersOfNodes ==
    (pc = "net" /\ is_network(entry.kind) /\ result[1].call = "scan") =>
        /\ (result[1].ret = Ok /\ (entry.kind = "CAN" => ScanFramesFromNodes)) =>
              /\ entry.kind = "CAN" =>
                     (result[1].id = Some(CAN_BROADCAST_ID) /\ entry.mode = Broadcast
                          /\ entry.filter = <<0, 0>>)
              /\ Len(result[1].nodes) = Cardinality(ScanAnswers)
              /\ \A i \in ScanAnswers :
                     LET k == Cardinality({j \in ScanAnswers : j <= i})
                     IN  /\ result[1].nodes[k] = result[1].frames[i].node
                         /\ entry.kind = "CAN" =>
                                result[1].nodes[k] = (result[1].frames[i].id - 1921) \div 2
        /\ (entry.kind = "CAN" /\ entry.open /\ result[1].io_ok /\ result[1].filter_ok
                /\ ScanFramesFromNodes) => result[1].ret = Ok
        /\ result[1].ret.status = "panic" => ~ScanFramesFromNodes

\* answers on 0x783 then 0x787 give [1, 3]
C29_ScanGivesOneAndThree ==
    /\ pc = "net" /\ entry.kind = "CAN" /\ result[1].call = "scan" /\ result[1].ret = Ok
    /\ Len(result[1].frames) = 2
    /\ result[1].frames[1].id = 1923 /\ result[1].frames[2].id = 1927
    /\ result[1].nodes = <<1, 3>>

\* the Ping of another host on 0x780 arrived during the scan: the scan panicked
C29_PanicOnForeignPing ==
    /\ pc = "net" /\ entry.kind = "CAN" /\ result[1].call = "scan"
    /\ result[1].ret.status = "panic"
    /\ \E i \in 1..Len(result[1].frames) : result[1].frames[i].id = CAN_BROADCAST_ID

\* the Ping of another host on 0x780 arrived during the scan, in a build without
\* overflow checks: the scan reports a node 255
C29_ForeignPingIsNode255 ==
    /\ pc = "net" /\ entry.kind = "CAN" /\ result[1].call = "scan" /\ result[1].ret = Ok
    /\ result[1].frames = <<CHOOSE f \in ForeignFrames : TRUE>>
    /\ result[1].nodes = <<255>>

\* C30: a node id given for a serial connection is ignored: the command of the front-end
\* connects and goes on as it does without a node id (when the port can be opened, into
\* Device::init).
C30_SerialIgnoresNodeId ==
    (pc \in {"cli_done", "cli_init"} /\ entry.kind = "Serial" /\ result[1].call = "cli"
        /\ result[1].node_id # NoValue /\ result[1].io_ok) =>
        /\ result[1].ret # Failed(Err("NotSupported", ""))
        /\ entry.open

\* without a node id the command on an opened serial port connects: Device::init ran
\* through its thirteen reads
C30_SerialConnectsWithoutNodeId ==
    /\ pc = "cli_done" /\ entry.kind = "Serial" /\ result[1].call = "cli"
    /\ result[1].node_id = NoValue
    /\ result[1].outcome = "done"
    /\ Len(log) = 13

\* what holds of the front-end commands: a network transport without a node id is
\* refused; a node id that no node on the bus has ends in the panic of the unwrap, on
\* ComNoResponse from the first read of Device::init; a connect that is done has read
\* the thirteen constants; a serial connection with a node id panics on NotSupported
CliCommandOutcomes ==
    (pc = "cli_done" /\ result[1].call = "cli") =>
        /\ result[1].outcome \in {"refused", "panic", "done"}
        /\ result[1].outcome = "refused" <=>
               (is_network(entry.kind) /\ result[1].node_id = NoValue)
        /\ result[1].outcome = "done" => (Len(log) = 13 /\ result[1].ret = Ok)
        /\ (is_network(entry.kind) /\ result[1].node_id # NoValue
                /\ result[1].node_id[1] \notin BusNodes) =>
               /\ result[1].outcome = "panic"
               /\ (result[1].io_ok \/ entry.kind = "SIM") /\ result[1].filter_ok =>
                      (Len(log) = 1 /\ result[1].ret \in
                          {Failed(Err("ComNoResponse", "")), Failed(Err("Error", "write_frame"))})
        /\ (entry.kind = "Serial" /\ result[1].node_id # NoValue) =>
               (result[1].outcome = "panic" /\ Len(log) = 0)

\* the addresses of the Application section
AppAddresses ==
    LET app == get_section(flash_desc, "Application")[1]
    IN  {a \in FirmwareAddresses : app.address <= a /\ a < app.address + app.size}

\* C37: if the firmware data holds an address outside the Application section, flash()
\* fails while assembling the image and hands no request to the transport.
C37_OutOfRangeImageSendsNothing ==
    (op = "flash" /\ pc # "panicked" /\ \E a \in DOMAIN fw_data[1] : a \notin AppAddresses) =>
        /\ pc = "done"
        /\ result = Some(Failed(Err("Error", "Firmware layout invalid")))
        /\ app_fw = NoValue
        /\ log = <<>>

\* C37 witness: flash() has failed on data with a byte in the Bootloader section and a
\* byte inside the Application section
C37_Witness ==
    /\ op = "flash" /\ pc = "done"
    /\ \E a \in DOMAIN fw_data[1] : a \notin AppAddresses
    /\ \E a \in DOMAIN fw_data[1] : a \in AppAddresses
    /\ FlashStart \in DOMAIN fw_data[1]
    /\ log = <<>>

\* the page of the image whose transfer the log line k belongs to: the pass of the page
\* loop that sent it
PageOfLine(k) ==
    app_fw[1].page_lst[Cardinality({i \in ReqsOf("PageBufferClear") : i <= k})]

\* C33: the PageBufferCalcCRC value of every page is read from the device, and if the
\* value read for a page differs from the host's CRC of that page, flash() returns Error
\* at once: neither FlashWriteErasePage nor PageBufferWriteToFlash is sent for that page,
\* and no request at all follows the read.
C33_PageCrcMismatchEndsFlash ==
    op = "flash" =>
        \A k \in CallsOf("PageBufferCalcCRC") :
            /\ log[k].sent
            /\ pc # "panicked" \/ log[k].fault = "panic"
            /\ (/\ log[k].fault = "none"
                /\ log[k].err = NoValue
                /\ to_word(log[k].data[1]) # PageOfLine(k).crc) =>
                   /\ k = Len(log)
                   /\ flash_failed_with("Page buffer CRC is invalid")
                   /\ \A j \in PageModifyingReqs :
                         to_word(log[j].req.data) # U32(PageOfLine(k).id + FirstPageId)
                   /\ ReqsOf("AppInfoCRCCalc") = {}
                   /\ ReqsOf("FlashWriteAppCRC") = {}
                   /\ ReqsOf("StartApp") = {}

\* the registration positions of the Const entries
ConstPositions == {m \in 1..Len(EntryTable) : EntryTable[m][1] = "Const"}

\* the registration position of the entry that the log line k asked for
PositionOfLine(k) ==
    CHOOSE m \in 1..Len(EntryTable) : EntryTable[m][2] = log[k].req.request

\* every line of the log of init() is the read request of a Const entry
InitSendsOnlyConstReads ==
    \A k \in 1..Len(log) :
        /\ log[k].kind = "read"
        /\ log[k].sent
        /\ log[k].req = new_std_request(log[k].req.request)
        /\ PositionOfLine(k) \in ConstPositions

\* C38 (as stated): init() sends exactly one read request for each Const entry, in
\* registration order, and no request for an RO, RW or Cmd entry.
C38_InitReadsEveryConstOnce ==
    op = "init" =>
        /\ InitSendsOnlyConstReads
        /\ (pc = "done" /\ result = Some(Ok)) =>
               /\ Len(log) = Cardinality(ConstPositions)
               /\ \A k \in 1..Len(log) :
                     Cardinality({m \in ConstPositions : m <= PositionOfLine(k)}) = k

\* what holds of the requests of an init() at any time
C38_InitLines ==
    op = "init" =>
        /\ InitSendsOnlyConstReads
        /\ \A j, k \in 1..Len(log) : j < k => PositionOfLine(j) < PositionOfLine(k)
        /\ \A k \in 1..Len(log) :
              \A m \in ConstPositions :
                  (m < PositionOfLine(k) /\ \A j \in 1..k : PositionOfLine(j) # m) =>
                      entries[EntryTable[m][2]] # NoValue
        /\ (pc = "done" /\ result = Some(Ok)) =>
               \A m \in ConstPositions : entries[EntryTable[m][2]] # NoValue

\* what holds of a step of init(): the call itself sends nothing and changes no entry;
\* a request is for an entry that held no value; no entry changes but the one asked for
C38_InitStep ==
    /\ (op # "init" /\ op' = "init") => (log' = <<>> /\ entries' = entries)
    /\ (op = "init" /\ op' = "init") =>
          /\ Len(log') \in {Len(log), Len(log) + 1}
          /\ Len(log') = Len(log) + 1 =>
                 /\ SubSeq(log', 1, Len(log)) = log
                 /\ entries[log'[Len(log')].req.request] = NoValue
          /\ \A rt \in EntryRequests :
                 entries'[rt] # entries[rt] =>
                    /\ Len(log') = Len(log) + 1
                    /\ log'[Len(log')].req.request = rt

\* C38 (amended): init() sends one read request for each Const entry that holds no value
\* when init() is called, in registration order, and no request for an RO, RW or Cmd
\* entry or for a Const entry that holds a value: an init() that succeeds has read
\* exactly the Const entries that held no value at its call, each once.
C38_InitReadsUncachedConstsOnce ==
    [](C38_InitLines) /\ [][C38_InitStep]_vars

\* C38 witness: an init() that succeeded after read_entry_value had read DevInfoVID or
\* AppInfoPageIdx: it read the other twelve Const entries
C38_Witness ==
    /\ op = "init" /\ pc = "done" /\ result = Some(Ok) /\ ops = 2
    /\ Len(log) = Cardinality(ConstPositions) - 1
    /\ \E rt \in ReadChoices :
          /\ is_const(get_entry_type(rt))
          /\ entries[rt] # NoValue
          /\ \A k \in 1..Len(log) : log[k].req.request # rt

\* the round trips of the log that were acknowledged
Acked(request_type) == {k \in ReqsOf(request_type) : log[k].fault = "none"}

\* C31: within one erase() or flash() call the progress events come in program order, one
\* per completed page: the k-th event carries current = k and the same total
\* (Application.num_pages for erase, image.page_count for flash), and it is emitted after
\* the last request of the k-th page was acknowledged and before the next request.
\* The events are what the operation reports of its pages: the current and total numbers
\* of its lines.
C31_ProgressPerCompletedPage ==
    /\ (op = "erase" /\ pc # "panicked") =>
          /\ Len(progress) = Cardinality(Acked("FlashWriteErasePage"))
          /\ \A k \in 1..Len(progress) :
                /\ progress[k].line = "Erasing app pages"
                /\ progress[k].args[1] = k
                /\ progress[k].args[2]
                       = get_section(flash_desc, "Application")[1].size \div flash_desc.page_size
                /\ progress[k].at = k
                /\ log[k].fault = "none"
                /\ to_word(log[k].req.data) = U32(FirstPageId + (k - 1))
    /\ (op = "flash" /\ app_fw # NoValue) =>
          /\ Len(progress) = Cardinality(Acked("PageBufferWriteToFlash"))
          /\ \A k \in 1..Len(progress) :
                /\ progress[k].line = "Flashing"
                /\ progress[k].args[1] = k
                /\ progress[k].args[2] = Len(app_fw[1].page_lst)
                /\ progress[k].at = k * (4 + (app_fw[1].flash_page_size \div 4))
                /\ log[progress[k].at].req.request = "PageBufferWriteToFlash"
                /\ log[progress[k].at].fault = "none"
                /\ to_word(log[progress[k].at].req.data)
                       = U32(app_fw[1].page_lst[k].id + FirstPageId)
    /\ op \in {"none", "init", "reset"} => progress = <<>>

\* what erase() prints: before each request one line, with the flash page id of the page
\* plus one and the number of pages of the flash
C31_EraseLineBeforeEachRequest ==
    (op = "erase" /\ pc # "panicked") =>
        /\ Len(progress) = Len(log)
        /\ \A k \in 1..Len(progress) :
              /\ progress[k].line = "Erasing app pages"
              /\ progress[k].at = k - 1
              /\ progress[k].args = <<FirstPageId + k, flash_desc.size \div flash_desc.page_size>>

\* what flash() prints: at the head of the pass of its k-th page one line with k and the
\* number of pages of the image, before any request for that page
C31_FlashLineAtHeadOfPass ==
    (op = "flash" /\ app_fw # NoValue) =>
        /\ Len(progress) = Cardinality(CallsOf("PageBufferClear"))
        /\ \A k \in 1..Len(progress) :
              /\ progress[k].line = "Flashing"
              /\ progress[k].args[1] = k
              /\ progress[k].args[2] = Len(app_fw[1].page_lst)
              /\ progress[k].at + 1 \in CallsOf("PageBufferClear")

\* ------------------------------------------- the word loop of a large page
\* _flash_app_pages on a device whose pages hold more words than a packet id counts
WordsPageSize == 2048

WordsPerPage == WordsPageSize \div 4

WordsDev ==
    [start |-> FlashStart, page_size |-> WordsPageSize, num_pages |-> 2, app_page_idx |-> 1]

\* the layout init() builds for WordsDev
WordsDesc ==
    add_section(add_section(FlashDesc_new(FlashStart, 2 * WordsPageSize, WordsPageSize),
                            "Bootloader", FlashStart, WordsPageSize).desc,
                "Application", FlashStart + WordsPageSize, WordsPageSize).desc

\* firmware data that fills the application page: the words 2m and 2m + 1 both hold
\* the bytes m mod 256, m div 256, 165, 90
\* (the EXCEPT leaves the map as it is and has it kept as a table)
WordsData ==
    [[a \in (FlashStart + WordsPageSize)..(FlashStart + (2 * WordsPageSize) - 1) |->
        LET b == a - (FlashStart + WordsPageSize)
        IN  CASE b % 4 = 0 -> (b \div 8) % 256
              [] b % 4 = 1 -> (b \div 8) \div 256
              [] b % 4 = 2 -> 165
              [] OTHER -> 90]
     EXCEPT ![FlashStart + WordsPageSize] = @]

\* the bytes of the one page of the image
WordsBytes == [k \in 1..WordsPageSize |-> WordsData[FlashStart + WordsPageSize + k - 1]]

\* the CRC register after the bytes lo..hi, by halves
RECURSIVE crc_span(_, _, _, _)
crc_span(c, bytes, lo, hi) ==
    IF lo > hi THEN c
    ELSE IF lo = hi THEN crc_byte(c, bytes[lo])
    ELSE LET mid == (lo + hi) \div 2
             n == crc_span(c, bytes, lo, mid)
         IN  IF n[1] >= 0 THEN crc_span(n, bytes, mid + 1, hi) ELSE n

\* CRC32_checksum of the first n of the bytes
crc_of_first(bytes, n) ==
    LET c == crc_span(<<65535, 65535>>, bytes, 1, n)
    IN  <<65535 - c[1], 65535 - c[2]>>

\* the image append_firmware builds from WordsData: one full page with its CRC, and
\* the image CRC over the area less its last four bytes
WordsImage ==
    [from_section(WordsDesc, get_section(WordsDesc, "Application")[1]) EXCEPT
        !.page_lst = <<[FlashPage_new(0, FlashStart + WordsPageSize, WordsBytes) EXCEPT
                          !.crc = crc_of_first(WordsBytes, WordsPageSize)]>>,
        !.crc = crc_of_first(WordsBytes, WordsPageSize - 4)]

\* flash(WordsData) has built its image and enters the page loop
InitWords ==
    /\ dev = WordsDev
    /\ entries = [rt \in EntryRequests |-> NoValue]
    /\ flash_desc = WordsDesc
    /\ pc = page_steps[1]
    /\ op = "flash"
    /\ app_fw = Some(WordsImage)
    /\ idx = 1
    /\ word = 0
    /\ log = <<>>
    /\ result = NoValue
    /\ ops = 1
    /\ entry = NoEntry
    /\ fw_data = Some(WordsData)
    /\ progress = <<>>
    /\ word_resp = NoValue

NextWords == page_clear \/ page_word

SpecWords == InitWords /\ [][NextWords]_vars

\* C34: within one page the i-th PageBufferWriteWord request (i from 0) carries the
\* packet id i mod 256 and the page bytes 4i..4i+3 as its payload, also in pages of
\* more than 256 words.
C34_WordRequestCarriesIndexAndBytes ==
    op = "flash" =>
        LET clears == ReqsOf("PageBufferClear")
        IN  \A k \in ReqsOf("PageBufferWriteWord") :
              LET before == {c \in clears : c < k}
                  i == k - 1 - (CHOOSE c \in before : \A d \in before : d <= c)
                  bytes == app_fw[1].page_lst[Cardinality(before)].bytes
              IN  /\ log[k].req.packet_id = i % 256
                  /\ log[k].req.data =
                         <<bytes[(4 * i) + 1], bytes[(4 * i) + 2],
                           bytes[(4 * i) + 3], bytes[(4 * i) + 4]>>

\* C34 witness: the word 257 of a page was sent with the packet id 1 and the bytes
\* 1028..1031 of the page
C34_Witness ==
    /\ op = "flash"
    /\ Len(log) = 259
    /\ ReqsOf("PageBufferClear") = {1}
    /\ log[259].sent
    /\ log[259].req.request = "PageBufferWriteWord"
    /\ log[259].req.packet_id = 1
    /\ log[259].req.data = <<128, 0, 165, 90>>

\* the acknowledgement the device sends for the word write j of the page
AckOfWord(bytes, j) == [word_request(bytes, j) EXCEPT !.result = "Ok"]

\* the log ends with a word write
LastIsWordWrite ==
    /\ log # <<>>
    /\ log[Len(log)].sent
    /\ log[Len(log)].req.request = "PageBufferWriteWord"
    /\ \E c \in ReqsOf("PageBufferClear") : c < Len(log)

\* the clears of the page buffer so far, the number of the word write that ends the
\* log, and the bytes of the page it belongs to
ClearsSoFar == ReqsOf("PageBufferClear")

LastWord == Len(log) - 1 - (CHOOSE c \in ClearsSoFar : \A d \in ClearsSoFar : d <= c)

LastWordBytes == app_fw[1].page_lst[Cardinality(ClearsSoFar)].bytes

\* the word writes of the page whose acknowledgement the frame received last echoes,
\* among the 255 before the last write
EchoedWords ==
    LET last == LastWord
        bytes == LastWordBytes
    IN  IF word_resp = NoValue THEN {}
        ELSE {j \in 0..(last - 1) :
                /\ last - j <= 255
                /\ j % 256 = word_resp[1].packet_id
                /\ word_resp[1] = AckOfWord(bytes, j)}

\* C40: during a page transfer a response that echoes one of the 255 word writes before
\* the current one is not taken as the acknowledgement of the current write: flash()
\* fails with MsgCorruption and does not go on to the next word.
C40_StaleWordAckIsRejected ==
    (/\ op = "flash"
     /\ LastIsWordWrite
     /\ EchoedWords # {}) =>
        /\ pc = "done"
        /\ word = LastWord
        /\ result # NoValue
        /\ result[1].status = "Err"
        /\ result[1].err[1].kind = "MsgCorruption"
        /\ log[Len(log)].err # NoValue
        /\ log[Len(log)].err[1].kind = "MsgCorruption"

\* C40 witness: the acknowledgement of the word 255 writes back, whose payload is not
\* that of the current word, came in answer to a word write and ended the transfer
C40_Witness ==
    /\ op = "flash"
    /\ pc = "done"
    /\ LastIsWordWrite
    /\ LastWord >= 255
    /\ LastWord - 255 \in EchoedWords
    /\ result[1].err[1].kind = "MsgCorruption"

\* the image of the large page is the one append_firmware builds: checked on the
\* small images, where crc_of_first and CRC32_checksum can be compared
CrcOfFirstAgrees ==
    app_fw # NoValue =>
        \A k \in 1..Len(app_fw[1].page_lst) :
            LET page == app_fw[1].page_lst[k]
            IN  page.crc = crc_of_first(page.bytes, Len(page.bytes))

\* ------------------------------------------------- Entry::from_hex_line
HEX_LINE_MIN_CHARS == 10

\* the hex digits, by value
UpperDigits == <<"0", "1", "2", "3", "4", "5", "6", "7", "8", "9", "A", "B", "C", "D", "E", "F">>
LowerDigits == <<"0", "1", "2", "3", "4", "5", "6", "7", "8", "9", "a", "b", "c", "d", "e", "f">>

\* char::to_digit(16): the value of a character, -1 if it is no hex digit
to_digit(ch) ==
    IF \E k \in 1..16 : UpperDigits[k] = ch
    THEN (CHOOSE k \in 1..16 : UpperDigits[k] = ch) - 1
    ELSE IF \E k \in 1..16 : LowerDigits[k] = ch
    THEN (CHOOSE k \in 1..16 : LowerDigits[k] = ch) - 1
    ELSE -1

RECURSIVE digits_value(_)
digits_value(digits) ==
    IF digits = <<>> THEN 0
    ELSE (digits_value(SubSeq(digits, 1, Len(digits) - 1)) * 16) + to_digit(digits[Len(digits)])

\* u8::from_str_radix(src, 16) and u16::from_str_radix(src, 16) on the two and four
\* characters they are given here: a leading "+" is taken as a sign
from_str_radix(src) ==
    LET digits == IF src # <<>> /\ src[1] = "+" THEN Tail(src) ELSE src
    IN  IF digits = <<>> \/ \E k \in 1..Len(digits) : to_digit(digits[k]) < 0
        THEN [ok |-> FALSE, value |-> 0]
        ELSE [ok |-> TRUE, value |-> digits_value(digits)]

RecordType_from_byte(byte) ==
    CASE byte = 0 -> Some("Data")
      [] byte = 1 -> Some("EndOfFile")
      [] byte = 2 -> Some("ExtendedSegmentAddress")
      [] byte = 3 -> Some("StartSegmentAddress")
      [] byte = 4 -> Some("ExtendedLinearAddress")
      [] byte = 5 -> Some("StartLinearAddress")
      [] OTHER -> NoValue

\* a + b on u16: with overflow checks the addition panics (-1) when the sum is not a
\* u16, without them it wraps; a panic (-1) stays one
add_u16(a, b, overflow_checks) ==
    IF a < 0 THEN a
    ELSE IF a + b <= 65535 THEN a + b
    ELSE IF overflow_checks THEN -1
    ELSE (a + b) % 65536

\* the loop `checksum_calc += data[i]` from position i on
RECURSIVE add_data(_, _, _, _)
add_data(checksum_calc, data, i, overflow_checks) ==
    IF i > Len(data) \/ checksum_calc < 0 THEN checksum_calc
    ELSE add_data(add_u16(checksum_calc, data[i], overflow_checks), data, i + 1,
                  overflow_checks)

\* the checksum calculated from the fields, -1 for a panic
checksum_calc_of(byte_count, offset, record_type_raw, data, overflow_checks) ==
    LET a == add_u16(0, byte_count, overflow_checks)
        b == add_u16(a, offset \div 256, overflow_checks)
        c == add_u16(b, offset % 256, overflow_checks)
        d == add_u16(c, record_type_raw, overflow_checks)
        e == add_data(d, data, 1, overflow_checks)
        negated == add_u16(65535 - e, 1, overflow_checks)
    IN  IF e < 0 THEN e
        ELSE IF negated < 0 THEN negated
        ELSE negated % 256

HexErr(kind) == [status |-> "Err", err |-> kind, entry |-> NoValue]

\* Entry::from_hex_line on a line of ASCII characters; status "panic" when the build
\* has overflow checks and an addition overflows
from_hex_line(line, overflow_checks) ==
    LET byte_count == from_str_radix(SubSeq(line, 1, 2))
        expected_byte_count == (byte_count.value * 2) + HEX_LINE_MIN_CHARS
        offset == from_str_radix(SubSeq(line, 3, 6))
        record_type_raw == from_str_radix(SubSeq(line, 7, 8))
        record_type == RecordType_from_byte(record_type_raw.value)
        data_raw == [i \in 1..byte_count.value |->
                        from_str_radix(SubSeq(line, 7 + (i * 2), 8 + (i * 2)))]
        data == [i \in 1..byte_count.value |-> data_raw[i].value]
        checksum == from_str_radix(SubSeq(line, 9 + (byte_count.value * 2),
                                          10 + (byte_count.value * 2)))
        checksum_calc == checksum_calc_of(byte_count.value, offset.value,
                                          record_type_raw.value, data, overflow_checks)
    IN  IF Len(line) < HEX_LINE_MIN_CHARS THEN HexErr("InvalidEntryLength")
        ELSE IF ~byte_count.ok THEN HexErr("ByteCountParseError")
        ELSE IF Len(line) # expected_byte_count THEN HexErr("InvalidByteCount")
        ELSE IF ~offset.ok THEN HexErr("OffsetParseError")
        ELSE IF ~record_type_raw.ok THEN HexErr("RecordTypeParseError")
        ELSE IF record_type = NoValue THEN HexErr("InvalidRecordType")
        ELSE IF \E i \in 1..byte_count.value : ~data_raw[i].ok THEN HexErr("DataParseError")
        ELSE IF ~checksum.ok THEN HexErr("ChecksumParseError")
        ELSE IF checksum_calc < 0 THEN [status |-> "panic", err |-> "", entry |-> NoValue]
        ELSE IF checksum_calc # checksum.value THEN HexErr("InvalidChecksum")
        ELSE [status |-> "Ok", err |-> "",
              entry |-> Some([byte_count |-> byte_count.value, offset |-> offset.value,
                              record_type |-> record_type[1], data |-> data,
                              checksum |-> checksum.value])]

\* the records read: byte counts, offsets, record types, data and checksum bytes
HexByteCounts == {0, 1, 2, 16, 255}
HexOffsets == {0, 8192, 65535}
HexRecordTypes == {0, 1, 4, 5}
HexDataBytes == {0, 18, 255}
HexSpellings == {"upper", "lower", "plus", "garbled", "short"}

\* the sum of the bytes of a record, the checksum byte included
RecordSum(rec) ==
    rec.byte_count + (rec.offset \div 256) + (rec.offset % 256) + rec.record_type
        + rec.first + ((rec.byte_count - 1) * rec.fill) + rec.checksum

\* a record: `first` is its first data byte and `fill` each of the others
HexRecords ==
    {[byte_count |-> n, offset |-> o, record_type |-> t,
      first |-> IF n = 0 THEN 0 ELSE f, fill |-> IF n = 0 THEN 0 ELSE d,
      checksum |-> c, spelling |-> sp] :
        n \in HexByteCounts, o \in HexOffsets, t \in HexRecordTypes,
        f \in HexDataBytes, d \in HexDataBytes, c \in {0, 255},
        sp \in HexSpellings}
    \cup
    {[byte_count |-> n, offset |-> o, record_type |-> t,
      first |-> IF n = 0 THEN 0 ELSE d, fill |-> IF n = 0 THEN 0 ELSE d,
      checksum |-> (256 - ((n + (o \div 256) + (o % 256) + t + (n * d)) % 256)) % 256,
      spelling |-> sp] :
        n \in HexByteCounts, o \in HexOffsets, t \in HexRecordTypes,
        d \in HexDataBytes, sp \in HexSpellings}

\* the two characters of a byte
hex_of(byte, digits) == <<digits[(byte \div 16) + 1], digits[(byte % 16) + 1]>>

\* the line of a record, without its ":"; a checksum below 16 is written with a
\* sign by the spelling "plus", the last character is replaced by "garbled" and
\* dropped by "short"
hex_line(rec) ==
    LET digits == IF rec.spelling = "lower" THEN LowerDigits ELSE UpperDigits
        n == rec.byte_count
        header == hex_of(n, digits) \o hex_of(rec.offset \div 256, digits)
                     \o hex_of(rec.offset % 256, digits) \o hex_of(rec.record_type, digits)
        data == [k \in 1..(2 * n) |->
                    hex_of(IF k <= 2 THEN rec.first ELSE rec.fill, digits)[((k - 1) % 2) + 1]]
        sum == IF rec.spelling = "plus" /\ rec.checksum < 16
               THEN <<"+", digits[rec.checksum + 1]>>
               ELSE hex_of(rec.checksum, digits)
        line == header \o data \o sum
    IN  CASE rec.spelling = "garbled" -> SubSeq(line, 1, Len(line) - 1) \o <<"!">>
          [] rec.spelling = "short" -> SubSeq(line, 1, Len(line) - 1)
          [] OTHER -> line

\* a record is about to be parsed
InitHex ==
    /\ dev = CHOOSE d \in DeviceChoices : d.app_page_idx = 1
    /\ entries = [rt \in EntryRequests |-> NoValue]
    /\ flash_desc = FlashDesc_new(0, 0, 0)
    /\ pc = "hex_line"
    /\ op = "none"
    /\ app_fw = NoValue
    /\ idx = 0
    /\ word = 0
    /\ log = <<>>
    /\ result = NoValue
    /\ ops = 0
    /\ entry \in HexRecords
    /\ fw_data = NoValue
    /\ progress = <<>>
    /\ word_resp = NoValue

\* Entry::from_hex_line(line) in a build with or without overflow checks
hex_parse ==
    /\ pc = "hex_line"
    /\ \E overflow_checks \in BOOLEAN :
          result' = Some(from_hex_line(hex_line(entry), overflow_checks))
    /\ pc' = "done"
    /\ UNCHANGED <<word_resp, fw_data, progress, dev, entries, flash_desc, op, app_fw,
                   idx, word, log, ops, entry>>

NextHex == hex_parse

SpecHex == InitHex /\ [][NextHex]_vars

\* a record whose text is well formed
WellFormedRecord == entry.spelling \in {"upper", "lower", "plus"}

\* C32: a HEX record is accepted only if the sum of all its bytes, the checksum byte
\* included, is 0 modulo 256, and every record whose sum is not 0 modulo 256 is
\* rejected with InvalidChecksum, for every byte count from 0 to 255.
C32_AcceptedIffByteSumIsZero ==
    (pc = "done" /\ WellFormedRecord) =>
        /\ result[1].status = "Ok" => RecordSum(entry) % 256 = 0
        /\ RecordSum(entry) % 256 # 0 =>
              /\ result[1].status = "Err"
              /\ result[1].err = "InvalidChecksum"

\* C32 in a build without overflow checks, and in every build for the records whose
\* sum stays a u16: accepted if and only if the sum is 0 modulo 256, otherwise
\* InvalidChecksum; a panic is left only to the sums that do not fit and to the sum 0
C32_HoldsUnlessAdditionOverflows ==
    (pc = "done" /\ WellFormedRecord /\ result[1].status # "panic") =>
        /\ result[1].status = "Ok" <=> RecordSum(entry) % 256 = 0
        /\ result[1].status = "Err" => result[1].err = "InvalidChecksum"

\* a record of 255 bytes 0xFF at the offset 0xFFFF with a wrong checksum made the
\* parser panic
C32_PanicOnLongRecord ==
    /\ pc = "done"
    /\ WellFormedRecord
    /\ entry.byte_count = 255
    /\ RecordSum(entry) % 256 # 0
    /\ result[1].status = "panic"

\* the record 00 0000 00 00, whose bytes are all zero, made the parser panic
C32_PanicOnZeroRecord ==
    /\ pc = "done"
    /\ entry.spelling = "upper"
    /\ RecordSum(entry) = 0
    /\ result[1].status = "panic"

\* ------------------------------------- init() on constants of any value
\* u32 arithmetic on words <<high half, low half>>: [ok |-> the result is a u32,
\* value |-> the result modulo 2^32]
u32_add(a, b) ==
    LET lo == a[2] + b[2]
        hi == a[1] + b[1] + (lo \div 65536)
    IN  [ok |-> hi < 65536, value |-> <<hi % 65536, lo % 65536>>]

u32_sub(a, b) ==
    LET lo == a[2] - b[2]
        hi == a[1] - b[1] - (IF lo < 0 THEN 1 ELSE 0)
    IN  [ok |-> hi >= 0, value |-> <<(hi + 65536) % 65536, (lo + 65536) % 65536>>]

\* the product of two halves as a word
mul16(x, y) ==
    LET t1 == (x \div 256) * y
        t2 == (x % 256) * y
        lo == ((t1 % 256) * 256) + (t2 % 65536)
        hi == (t1 \div 256) + (t2 \div 65536) + (lo \div 65536)
    IN  <<hi, lo % 65536>>

u32_mul(a, b) ==
    LET low == mul16(a[2], b[2])
        mid1 == mul16(a[1], b[2])
        mid2 == mul16(a[2], b[1])
        mid == mid1[2] + mid2[2] + low[1]
    IN  [ok |-> /\ (a[1] = 0 \/ b[1] = 0)
                /\ mid1[1] = 0
                /\ mid2[1] = 0
                /\ mid < 65536,
         value |-> <<mid % 65536, low[2]>>]

u32_lt(a, b) == a[1] < b[1] \/ (a[1] = b[1] /\ a[2] < b[2])

\* a % p and a / p for a divisor 0 < p <= 2^15 (the page sizes of LayoutDevices)
u32_rem(a, p) == (((a[1] % p[2]) * 65536) + a[2]) % p[2]

u32_div(a, p) == <<a[1] \div p[2], (((a[1] % p[2]) * 65536) + a[2]) \div p[2]>>

\* an arithmetic step of a build: it panics where the result is no u32 and the build
\* has overflow checks
step_panics(r, overflow_checks) == overflow_checks /\ ~r.ok

\* the overlap test of add_section for one section: "panic", "overlap" or "clear";
\* `&&` evaluates its right side only when the left side holds
section_overlap(section, address, size, overflow_checks) ==
    LET section_end == u32_add(section.address, section.size)
        new_end == u32_add(address, size)
        left1 == ~u32_lt(address, section.address)
        left2 == IF step_panics(new_end, overflow_checks) THEN FALSE
                 ELSE u32_lt(section.address, new_end.value)
    IN  IF left1 /\ step_panics(section_end, overflow_checks) THEN "panic"
        ELSE IF left1 /\ u32_lt(address, section_end.value) THEN "overlap"
        ELSE IF step_panics(new_end, overflow_checks) THEN "panic"
        ELSE IF left2 /\ step_panics(section_end, overflow_checks) THEN "panic"
        ELSE IF left2 /\ ~u32_lt(section_end.value, new_end.value) THEN "overlap"
        ELSE "clear"

\* FlashDesc::add_section on u32 words: the status is "Ok", the FlashDescError or
\* "panic" (a remainder by zero in every build, an overflow in a build that checks)
add_section_u32(desc, name, address, size, overflow_checks) ==
    LET lst == desc.section_lst
        new_end == u32_add(address, size)
        flash_end == u32_add(desc.address, desc.size)
        found == {k \in 1..Len(lst) :
                     section_overlap(lst[k], address, size, overflow_checks) # "clear"}
        first_found == CHOOSE k \in found : \A m \in found : k <= m
        offset == u32_sub(address, desc.address)
        status ==
            IF \E k \in 1..Len(lst) : lst[k].name = name THEN "FlashNameAlreadyUsed"
            ELSE IF desc.page_size = <<0, 0>> THEN "panic"
            ELSE IF u32_rem(address, desc.page_size) # 0 THEN "FlashSectionAddressInvalid"
            ELSE IF u32_rem(size, desc.page_size) # 0 THEN "FlashSectionSizeInvalid"
            ELSE IF step_panics(new_end, overflow_checks) THEN "panic"
            ELSE IF step_panics(flash_end, overflow_checks) THEN "panic"
            ELSE IF u32_lt(flash_end.value, new_end.value) THEN "FlashSectionSizeTooBig"
            ELSE IF found # {}
            THEN (IF section_overlap(lst[first_found], address, size, overflow_checks)
                        = "panic"
                  THEN "panic" ELSE "FlashAreaAlreadyUsed")
            ELSE IF step_panics(offset, overflow_checks) THEN "panic"
            ELSE "Ok"
    IN  [status |-> status,
         desc |-> IF status = "Ok"
                  THEN [desc EXCEPT !.section_lst =
                           Append(@, FlashSection_new(name, address, size,
                                        u32_div(offset.value, desc.page_size)))]
                  ELSE desc]

\* lines 96-124 of Device::init on u32 words: [panic |-> the program aborts,
\* res |-> what init() returns otherwise, desc |-> the layout it leaves]
init_layout_u32(ents, overflow_checks) ==
    LET flash_start == get_entry_value(ents, "FlashInfoStartAddr")
        flash_page_size == get_entry_value(ents, "FlashInfoPageSize")
        flash_num_pages == get_entry_value(ents, "FlashInfoNumPages")
        flash_size == u32_mul(flash_page_size, flash_num_pages)
        flash_app_page_idx == get_entry_value(ents, "AppInfoPageIdx")
        bootloader_start == flash_start
        bootloader_size == u32_mul(flash_app_page_idx, flash_page_size)
        app_start == u32_add(flash_start, bootloader_size.value)
        app_size == u32_sub(flash_size.value, bootloader_size.value)
        d0 == FlashDesc_new(flash_start, flash_size.value, flash_page_size)
        a1 == add_section_u32(d0, "Bootloader", bootloader_start, bootloader_size.value,
                              overflow_checks)
        a2 == add_section_u32(a1.desc, "Application", app_start.value, app_size.value,
                              overflow_checks)
    IN  IF \/ step_panics(flash_size, overflow_checks)
           \/ step_panics(bootloader_size, overflow_checks)
           \/ step_panics(app_start, overflow_checks)
           \/ step_panics(app_size, overflow_checks)
        THEN [panic |-> TRUE, res |-> Ok, desc |-> d0]
        ELSE IF a1.status = "panic"
        THEN [panic |-> TRUE, res |-> Ok, desc |-> a1.desc]
        ELSE IF a1.status # "Ok"
        THEN [panic |-> FALSE,
              res |-> Failed(Err("Error", "Failed to add bootloader section")),
              desc |-> a1.desc]
        ELSE IF a2.status = "panic"
        THEN [panic |-> TRUE, res |-> Ok, desc |-> a2.desc]
        ELSE IF a2.status # "Ok"
        THEN [panic |-> FALSE,
              res |-> Failed(Err("Error", "Failed to add application section")),
              desc |-> a2.desc]
        ELSE [panic |-> FALSE, res |-> Ok, desc |-> a2.desc]

\* the constants a device may report, consistent or not
LayoutPageSizes == {0, 8, 32768}
LayoutNumPages == {0, 4, 131072, 131074}
LayoutAppPageIdxs == {0, 1, 4, 5, 131073}

LayoutDevices ==
    {[start |-> FlashStart, page_size |-> ps, num_pages |-> n, app_page_idx |-> a] :
        ps \in LayoutPageSizes, n \in LayoutNumPages, a \in LayoutAppPageIdxs}

\* init() has read the constants of a device and turns to the layout
InitLayout ==
    /\ dev \in LayoutDevices
    /\ entries = [rt \in EntryRequests |->
                    IF \E k \in 1..Len(EntryTable) :
                          EntryTable[k][2] = rt /\ is_const(EntryTable[k][1])
                    THEN Some(from_word(DevValue(dev, rt)))
                    ELSE NoValue]
    /\ flash_desc = FlashDesc_new(0, 0, 0)
    /\ pc = "layout"
    /\ op = "init"
    /\ app_fw = NoValue
    /\ idx = 0
    /\ word = 0
    /\ log = <<>>
    /\ result = NoValue
    /\ ops = 1
    /\ entry = NoEntry
    /\ fw_data = NoValue
    /\ progress = <<>>
    /\ word_resp = NoValue

\* the rest of init() in a build with or without overflow checks
layout_build ==
    /\ pc = "layout"
    /\ \E overflow_checks \in BOOLEAN :
          LET r == init_layout_u32(entries, overflow_checks)
          IN  IF r.panic
              THEN /\ pc' = "panicked"
                   /\ UNCHANGED <<flash_desc, result>>
              ELSE /\ pc' = "done"
                   /\ flash_desc' = r.desc
                   /\ result' = Some(r.res)
    /\ UNCHANGED <<word_resp, fw_data, progress, dev, entries, op, app_fw,
                   idx, word, log, ops, entry>>

NextLayout == layout_build

SpecLayout == InitLayout /\ [][NextLayout]_vars

\* the constants of the device are inconsistent
PageSizeZero == dev.page_size = 0
AppPageIdxPastFlash == dev.app_page_idx >= dev.num_pages
FlashSizeOverflows == ~u32_mul(U32(dev.page_size), U32(dev.num_pages)).ok
BootloaderSizeOverflows == ~u32_mul(U32(dev.app_page_idx), U32(dev.page_size)).ok

\* C39: init() returns an Error, and neither aborts the program nor builds a
\* wrapped-around layout, when the device reports the page size 0, an application
\* page index not below the number of pages, or a page size and a number of pages
\* whose product is no 32-bit number.
C39_InconsistentConstantsGiveError ==
    (/\ op = "init"
     /\ pc \in {"done", "panicked"}
     /\ PageSizeZero \/ AppPageIdxPastFlash \/ FlashSizeOverflows) =>
        /\ pc = "done"
        /\ result[1].status = "Err"

\* the page size 0 made init() abort
C39_PanicOnPageSizeZero ==
    /\ op = "init"
    /\ pc = "panicked"
    /\ PageSizeZero

\* a flash size past 32 bits was taken modulo 2^32 and init() returned Ok with it
C39_WrappedLayoutBuilt ==
    /\ op = "init"
    /\ pc = "done"
    /\ FlashSizeOverflows
    /\ result[1].status = "Ok"
    /\ Len(flash_desc.section_lst) = 2

\* an application page index past the flash made init() abort in the subtraction
C39_PanicOnAppPageIdxPastFlash ==
    /\ op = "init"
    /\ pc = "panicked"
    /\ ~PageSizeZero
    /\ ~FlashSizeOverflows
    /\ ~BootloaderSizeOverflows
    /\ dev.app_page_idx > dev.num_pages

\* a flash of no pages with the application page index 0 was accepted: init() returned
\* Ok with two empty sections
C39_EmptyFlashAccepted ==
    /\ op = "init"
    /\ pc = "done"
    /\ dev.num_pages = 0
    /\ dev.app_page_idx = 0
    /\ result[1].status = "Ok"

\* what does hold: where init() does not abort, the flash has pages and neither its
\* size nor the size of the Bootloader leaves the 32 bits, an application page index
\* not below the number of pages gives an Error
C39_NoAbortGivesErrorPastFlash ==
    (/\ op = "init"
     /\ pc = "done"
     /\ dev.num_pages > 0
     /\ AppPageIdxPastFlash
     /\ ~FlashSizeOverflows
     /\ ~BootloaderSizeOverflows) =>
        result[1].status = "Err"

\* on constants that are consistent and small the layout is the one init_layout builds
LayoutAgrees ==
    (/\ op = "init"
     /\ pc = "done"
     /\ dev.page_size = 8
     /\ dev.num_pages = 4
     /\ dev.app_page_idx \in {1, 4}) =>
        /\ result[1] = init_layout(entries).res
        /\ Len(flash_desc.section_lst) = Len(init_layout(entries).desc.section_lst)
        /\ \A k \in 1..Len(flash_desc.section_lst) :
              /\ ToInt(flash_desc.section_lst[k].address)
                    = init_layout(entries).desc.section_lst[k].address
              /\ ToInt(flash_desc.section_lst[k].size)
                    = init_layout(entries).desc.section_lst[k].size
              /\ ToInt(flash_desc.section_lst[k].flash_page_id)
                    = init_layout(entries).desc.section_lst[k].flash_page_id

\* --------------------------- _erase_unused_pages(&mut self, app), on its arguments
\* flash() does not get to its call of this function (read_value of AppInfoCRCCalc,
\* entry.rs:135-139), so the function is applied to the arguments it is written for:
\* `self` as init() leaves a driver when it returns Ok, `app` as AppFirmware::from_section
\* and append_firmware build an image for the layout of that driver.
\* A device whose AppInfoPageIdx times its page size leaves the 32 bits by one page
WrappedAppPageIdx == (2 ^ (32 - PageSizeBits)) + 1

RecoveryDevices ==
    DeviceChoices
    \cup {[start |-> FlashStart, page_size |-> PageSize,
           num_pages |-> NumFlashPages, app_page_idx |-> WrappedAppPageIdx]}

\* a layout of u32 words with the numbers the driver's getters return
desc_numbers(desc) ==
    [address |-> ToInt(desc.address),
     size |-> ToInt(desc.size),
     page_size |-> ToInt(desc.page_size),
     section_lst |-> [k \in 1..Len(desc.section_lst) |->
                        [name |-> desc.section_lst[k].name,
                         address |-> ToInt(desc.section_lst[k].address),
                         size |-> ToInt(desc.section_lst[k].size),
                         flash_page_id |-> ToInt(desc.section_lst[k].flash_page_id)]]]

\* the Const values a driver holds after init() on the device d
const_entries(d) ==
    [rt \in EntryRequests |->
        IF \E k \in 1..Len(EntryTable) : EntryTable[k][2] = rt /\ is_const(EntryTable[k][1])
        THEN Some(from_word(DevValue(d, rt)))
        ELSE NoValue]

\* the arguments of _erase_unused_pages: `self` holds the Const values and the layout of
\* a device of RecoveryDevices, `app` is the image of some firmware data that fits the
\* Application section; nothing of the function has run
InitRecovery ==
    /\ \E d \in RecoveryDevices, overflow_checks \in BOOLEAN, data_raw \in FirmwareChoices :
         \E lay \in {init_layout_u32(const_entries(d), overflow_checks)} :
           /\ ~lay.panic
           /\ lay.res = Ok
           /\ \E desc \in {desc_numbers(lay.desc)} :
                \E a \in {append_firmware(
                              from_section(desc, get_section(desc, "Application")[1]),
                              data_raw)} :
                  /\ a.ok
                  /\ dev = d
                  /\ entries = const_entries(d)
                  /\ flash_desc = desc
                  /\ app_fw = Some(a.fw)
                  /\ fw_data = Some(data_raw)
    /\ pc = "erase_unused_call"
    /\ op = "flash"
    /\ idx = 0
    /\ word = 0
    /\ log = <<>>
    /\ result = NoValue
    /\ ops = 2
    /\ entry = NoEntry
    /\ progress = <<>>
    /\ word_resp = NoValue

\* the loop of _erase_unused_pages up to its first unused page
erase_unused_call ==
    /\ pc = "erase_unused_call"
    /\ erase_unused_from(app_fw[1], 0)
    /\ UNCHANGED <<word_resp, fw_data, progress, dev, entries, flash_desc, op, app_fw,
                   word, log, result, ops, entry>>

NextRecovery == erase_unused_call \/ erase_unused

SpecRecovery == InitRecovery /\ [][NextRecovery]_vars

\* the pass is over: _erase_unused_pages has returned Ok
RecoveryPassOver == op = "flash" /\ pc = "check_crc2"

\* C4: when the first AppInfoCRCCalc read does not match, the recovery pass sends
\* FlashWriteErasePage(page_id + Application.first_page_id) exactly for the page_ids in
\* [0, image.page_count) that the image does not hold, and for no other page.
C4_RecoveryErasesUnusedPages ==
    LET erased == {to_word(log[k].req.data) : k \in 1..Len(log)}
    IN  (op = "flash" /\ pc \in {"erase_unused", "check_crc2"}) =>
           /\ \A k \in 1..Len(log) :
                 log[k].req.request = "FlashWriteErasePage" /\ log[k].sent
           /\ \A j, k \in 1..Len(log) :
                 j < k => u32_lt(to_word(log[j].req.data), to_word(log[k].req.data))
           /\ erased \subseteq {U32(p + FirstPageId) : p \in UnusedPageIds}
           /\ RecoveryPassOver => erased = {U32(p + FirstPageId) : p \in UnusedPageIds}

\* the layout of the device is the one its constants describe without a wrap
ConstantsConsistent == dev \in DeviceChoices

\* on a device whose constants are consistent the pass is as C4 says
C4_HoldsOnConsistentConstants ==
    ConstantsConsistent => C4_RecoveryErasesUnusedPages

\* a pass on consistent constants that erased a page and returned
C4_PassOnConsistentConstants ==
    /\ ConstantsConsistent
    /\ RecoveryPassOver
    /\ UnusedPageIds # {}
    /\ ReqsOf("FlashWriteErasePage") # {}

\* C35: every FlashWriteErasePage and PageBufferWriteToFlash request of erase() and
\* flash(), the recovery pass included, carries a page id p with
\* Application.first_page_id <= p < number of flash pages: no page of the Bootloader
\* section and no page past the flash is ever addressed.
C35_OnlyApplicationPagesTargeted ==
    \A k \in 1..Len(log) :
        log[k].req.request \in {"FlashWriteErasePage", "PageBufferWriteToFlash"} =>
            /\ op \in {"erase", "flash"}
            /\ to_word(log[k].req.data)[1] = 0
            /\ FirstPageId <= to_word(log[k].req.data)[2]
            /\ to_word(log[k].req.data)[2] < dev.num_pages
            /\ to_word(log[k].req.data)[2] < flash_desc.size \div flash_desc.page_size

\* on a device whose constants are consistent no request leaves the Application section
C35_HoldsOnConsistentConstants ==
    ConstantsConsistent => C35_OnlyApplicationPagesTargeted

\* C36: once the recovery pass has completed, every page of the Application section that
\* the image does not use has been erased by the pass.
C36_RecoveryErasesEveryUnusedAppPage ==
    RecoveryPassOver =>
        \A p \in 0..(app_fw[1].flash_num_pages - 1) :
            get_page(app_fw[1], p) = NoValue =>
                \E k \in ReqsOf("FlashWriteErasePage") :
                    /\ log[k].fault = "none"
                    /\ to_word(log[k].req.data) = U32(p + FirstPageId)

\* what the pass does erase on consistent constants: the unused pages below
\* image.page_count
C36_ErasesUnusedBelowPageCount ==
    (RecoveryPassOver /\ ConstantsConsistent) =>
        \A p \in 0..(app_fw[1].flash_num_pages - 1) :
            (get_page(app_fw[1], p) = NoValue /\ p < Len(app_fw[1].page_lst)) <=>
                \E k \in ReqsOf("FlashWriteErasePage") :
                    /\ log[k].fault = "none"
                    /\ to_word(log[k].req.data) = U32(p + FirstPageId)

====
